---- MODULE Spec2Model ----
(***************************************************************************)
(* A model of mcp-filesystem-go: the path sandbox (FileManager.ValidatePath *)
(* in pkg/filesystem/filesystem.go) and the edit/undo subsystem            *)
(* (EditManager in pkg/editor/editor.go).                                  *)
(*                                                                         *)
(* Go strings are modelled as sequences of one-character strings, so that  *)
(* strings.HasPrefix, strings.Count, strings.Replace, filepath.Clean and   *)
(* the like are computed character by character, as the Go library does.   *)
(* The model is the Unix build (filepath.Separator = '/').                 *)
(***************************************************************************)
EXTENDS Integers, Sequences, FiniteSets, TLC

VARIABLES
    allowedDirectories,  \* FileManager.allowedDirectories: sequence of strings
    fs,                  \* the directory tree: path string -> node (dir, file, link)
    home,                \* what os.UserHomeDir returns (a string, or NoHome)
    cwd,                 \* what os.Getwd returns (a string, or NoCwd)
    vpReq,               \* the argument of the last ValidatePath call
    vpRes,               \* the result of the last ValidatePath call
    disk,                \* the edited files: path -> content, or NoFile
    backups,             \* the backup directory: backup path -> content
    history,             \* EditManager.history
    clock,               \* the wall clock, what time.Now().UnixNano() returns
    call,                \* the last EditManager call, its arguments, the content
                         \* its file had when it was made and, for UndoEdit,
                         \* whether it follows a successful StrReplace of the path
    ret,                 \* the error the last EditManager call returned
    log,                 \* history variable: the pre-images of the recorded edits
                         \* that were not undone, oldest first
    streak,              \* history variable: the UndoEdit calls on one path in a
                         \* row, counted up to MaxClock + 1
    run,                 \* the EditManager call under way, when its file-system
                         \* calls are taken one at a time: its place, its
                         \* arguments and its local variables
    workers,             \* the calls concurrent workers have under way: worker ->
                         \* place, arguments and local variables of its call
    mutex,               \* EditManager.historyMutex: the worker that holds it, 0,
                         \* or minus the number of the readers that hold it
    trace,               \* history variable of the concurrent calls: the number of
                         \* edits that went past their first check; for each history record its identity,
                         \* what its call read, wrote and copied to the backup;
                         \* the records the undos restored from and removed
    request,             \* the tools/call request handleToolCall was given: the
                         \* tool's name and its arguments
    response,            \* what handleToolCall returned for it: the
                         \* CallToolResponse and the Go error
    server,              \* the mcp.Server: its initialized flag and the methods
                         \* that have a handler
    served,              \* the last message handleRequest was given and what it
                         \* returned for it
    config,              \* the transport that is used and its NetworkConfig
    transport,           \* the transport: running, stopChan, listener,
                         \* waitGroup, the place of its goroutine and of the
                         \* Stop call under way
    conns                \* the client connections: their remote address, the
                         \* place of their handler goroutine, the lines sent

pathVars == <<allowedDirectories, fs, home, cwd, vpReq, vpRes>>
editVars == <<disk, backups, history, clock, call, ret, log, streak>>

stepVars == <<run>>
poolVars == <<workers, mutex, trace>>
toolVars == <<request, response>>
mcpVars == <<server, served, config, transport, conns>>

vars == <<pathVars, editVars, stepVars, poolVars, toolVars, mcpVars>>

(***************************************************************************)
(* Strings.                                                                *)
(***************************************************************************)
Sep == "/"

\* strings.HasPrefix(s, prefix)
HasPrefix(s, prefix) ==
    /\ Len(s) >= Len(prefix)
    /\ SubSeq(s, 1, Len(prefix)) = prefix

\* The components of a path: the maximal runs of non-separator characters.
RECURSIVE SplitFrom(_, _, _)
SplitFrom(s, i, cur) ==
    IF i > Len(s)
    THEN IF cur = <<>> THEN <<>> ELSE <<cur>>
    ELSE IF s[i] = Sep
         THEN (IF cur = <<>> THEN <<>> ELSE <<cur>>) \o SplitFrom(s, i + 1, <<>>)
         ELSE SplitFrom(s, i + 1, Append(cur, s[i]))

Split(s) == SplitFrom(s, 1, <<>>)

\* elems joined with the separator (strings.Join(elems, "/"))
RECURSIVE JoinSep(_)
JoinSep(elems) ==
    IF elems = <<>> THEN <<>>
    ELSE IF Len(elems) = 1 THEN elems[1]
    ELSE elems[1] \o <<Sep>> \o JoinSep(Tail(elems))

Dot == <<".">>
DotDot == <<".", ".">>

\* The component stack of filepath.Clean: "." dropped, ".." removes the
\* component before it; at the root ".." is dropped, in a relative path a
\* leading ".." is kept.
RECURSIVE CleanSegs(_, _, _)
CleanSegs(segs, out, rooted) ==
    IF segs = <<>> THEN out
    ELSE LET c == Head(segs) IN
         IF c = Dot THEN CleanSegs(Tail(segs), out, rooted)
         ELSE IF c = DotDot
              THEN IF out # <<>> /\ out[Len(out)] # DotDot
                   THEN CleanSegs(Tail(segs), SubSeq(out, 1, Len(out) - 1), rooted)
                   ELSE IF rooted
                        THEN CleanSegs(Tail(segs), out, rooted)
                        ELSE CleanSegs(Tail(segs), Append(out, c), rooted)
              ELSE CleanSegs(Tail(segs), Append(out, c), rooted)

\* filepath.Clean(path)
Clean(path) ==
    IF path = <<>> THEN Dot
    ELSE LET rooted == path[1] = Sep
             out == CleanSegs(Split(path), <<>>, rooted)
         IN IF rooted THEN <<Sep>> \o JoinSep(out)
            ELSE IF out = <<>> THEN Dot ELSE JoinSep(out)

\* filepath.IsAbs(path)
IsAbs(path) == HasPrefix(path, <<Sep>>)

\* filepath.Join(a, b): the non-empty elements joined and cleaned
Join(a, b) ==
    IF a = <<>> /\ b = <<>> THEN <<>>
    ELSE IF a = <<>> THEN Clean(b)
    ELSE IF b = <<>> THEN Clean(a)
    ELSE Clean(a \o <<Sep>> \o b)

\* The index of the last separator of s (0 when there is none).
RECURSIVE LastSep(_, _)
LastSep(s, i) == IF i = 0 THEN 0 ELSE IF s[i] = Sep THEN i ELSE LastSep(s, i - 1)

\* filepath.Dir(path): all but the last element, cleaned
Dir(path) ==
    LET i == LastSep(path, Len(path)) IN Clean(SubSeq(path, 1, i))

\* filepath.Base of a cleaned path
Base(path) ==
    IF path = <<>> THEN Dot
    ELSE LET segs == Split(path) IN
         IF segs = <<>> THEN <<Sep>> ELSE segs[Len(segs)]

(***************************************************************************)
(* The file system seen by ValidatePath: a map from the clean absolute     *)
(* path of each existing entry to its node.                                *)
(***************************************************************************)
NoEnt == [kind |-> "none", target |-> <<>>]
DirNode == [kind |-> "dir", target |-> <<>>]
FileNode == [kind |-> "file", target |-> <<>>]
LinkNode(t) == [kind |-> "link", target |-> t]

\* os.Lstat(path): the node named by path itself, links not followed. Every
\* component of path before the last has been resolved by the caller, so the
\* kernel's walk of path is the lexical one.
Lstat(f, path) ==
    LET c == Clean(path) IN IF c \in DOMAIN f THEN f[c] ELSE NoEnt

\* filepath.EvalSymlinks gives up after this many links (path/filepath/symlink.go).
EvalSymlinksMaxLinks == 255
\* The kernel's path walk gives up with ELOOP after this many links.
KernelMaxLinks == 40

\* walkSymlinks, ".." component: back up to the previous component of dest
\* if there is one, else keep the "..".
DestDotDot(dest) ==
    LET r == LastSep(dest, Len(dest)) IN
    IF r < 2 \/ SubSeq(dest, r + 1, Len(dest)) = DotDot
    THEN (IF Len(dest) > 1 THEN dest \o <<Sep>> ELSE dest) \o DotDot
    ELSE SubSeq(dest, 1, r - 1)

\* walkSymlinks, ordinary component: add it to dest.
DestAdd(dest, c) ==
    (IF Len(dest) > 0 /\ dest[Len(dest)] # Sep THEN dest \o <<Sep>> ELSE dest) \o c

\* walkSymlinks, relative link: the last component of dest is replaced.
DestDropLast(dest) ==
    LET r == LastSep(dest, Len(dest)) IN
    IF r < 2 THEN <<Sep>> ELSE SubSeq(dest, 1, r - 1)

\* walkSymlinks: the separators before the next component are skipped.
RECURSIVE SkipSeps(_)
SkipSeps(path) ==
    IF path # <<>> /\ Head(path) = Sep THEN SkipSeps(Tail(path)) ELSE path

\* walkSymlinks: the length of the component path begins with, up to the
\* next separator or the end.
RECURSIVE ComponentLen(_)
ComponentLen(path) ==
    IF path = <<>> \/ Head(path) = Sep THEN 0 ELSE 1 + ComponentLen(Tail(path))

\* walkSymlinks(path) of path/filepath: dest is the resolved part, path what
\* is still to walk (path[start:] of the code, separators included),
\* linksWalked the links followed so far. A component that is not a directory
\* fails with ENOTDIR when anything follows it, a trailing separator
\* included (end < len(path)). The walk is deterministic, so once it follows
\* the same link with the same path left (seen) it repeats until linksWalked
\* exceeds maxLinks: that failure is returned at once instead of after
\* maxLinks rounds.
RECURSIVE walkSymlinks(_, _, _, _, _, _)
walkSymlinks(f, dest, path, linksWalked, maxLinks, seen) ==
    LET start == SkipSeps(path)
        end == ComponentLen(start)
        c == SubSeq(start, 1, end)
        after == SubSeq(start, end + 1, Len(start))
    IN
    IF start = <<>> THEN [ok |-> TRUE, path |-> Clean(dest), err |-> "nil"]
    ELSE IF c = Dot THEN walkSymlinks(f, dest, after, linksWalked, maxLinks, seen)
    ELSE IF c = DotDot
         THEN walkSymlinks(f, DestDotDot(dest), after, linksWalked, maxLinks, seen)
    ELSE LET d == DestAdd(dest, c)
             fi == Lstat(f, d)
         IN IF fi.kind = "none" THEN [ok |-> FALSE, path |-> <<>>, err |-> "ENOENT"]
            ELSE IF fi.kind # "link"
                 THEN IF fi.kind # "dir" /\ after # <<>>
                      THEN [ok |-> FALSE, path |-> <<>>, err |-> "ENOTDIR"]
                      ELSE walkSymlinks(f, d, after, linksWalked, maxLinks, seen)
            ELSE IF linksWalked + 1 > maxLinks \/ <<Clean(d), after>> \in seen
                 THEN [ok |-> FALSE, path |-> <<>>, err |-> "ELOOP"]
            ELSE walkSymlinks(f,
                              IF IsAbs(fi.target) THEN <<Sep>> ELSE DestDropLast(d),
                              fi.target \o after,
                              linksWalked + 1, maxLinks,
                              seen \cup {<<Clean(d), after>>})

\* filepath.EvalSymlinks(path) for an absolute path
EvalSymlinks(f, path) ==
    walkSymlinks(f, <<Sep>>, path, 0, EvalSymlinksMaxLinks, {})

\* os.Stat(path): the kernel follows every link, the last one included, and
\* fails when a component is missing, is not a directory, or the links loop.
Stat(f, path) ==
    walkSymlinks(f, <<Sep>>, path, 0, KernelMaxLinks, {})

(***************************************************************************)
(* FileManager.                                                            *)
(***************************************************************************)
\* normalizePath(path): filepath.Separator is '/', so case is preserved.
normalizePath(path) == Clean(path)

\* NewFileManager(allowedDirs).allowedDirectories
NewFileManager(allowedDirs) ==
    [i \in 1..Len(allowedDirs) |-> normalizePath(Clean(allowedDirs[i]))]

NoHome == <<"<", "n", "o", "h", "o", "m", "e", ">">>
NoCwd == <<"<", "n", "o", "c", "w", "d", ">">>

Ok(p) == [ok |-> TRUE, path |-> p, err |-> "nil"]
Fail(e) == [ok |-> FALSE, path |-> <<>>, err |-> e]

\* expandHomePath(path) with os.UserHomeDir() = h
expandHomePath(h, path) ==
    IF ~HasPrefix(path, <<"~">>) THEN Ok(path)
    ELSE IF h = NoHome THEN Fail("NoHome")
    ELSE IF path = <<"~">> THEN Ok(h)
    ELSE IF HasPrefix(path, <<"~", Sep>>)
         THEN Ok(Join(h, SubSeq(path, 3, Len(path))))
         ELSE Ok(path)

\* The loop of ValidatePath over fm.allowedDirectories.
PrefixAllowed(dirs, normalized) ==
    \E i \in 1..Len(dirs) : HasPrefix(normalized, dirs[i])

\* ValidatePath, lines 85-96: the absolute path of the expanded request.
Absolute(c, expandedPath) ==
    IF ~IsAbs(expandedPath)
    THEN IF c = NoCwd THEN Fail("NoCwd") ELSE Ok(Join(c, Clean(expandedPath)))
    ELSE Ok(Clean(expandedPath))

\* ValidatePath, lines 113-164: the symlink checks on the absolute path.
CheckReal(dirs, f, absolute) ==
    LET real == EvalSymlinks(f, absolute) IN
    IF ~real.ok
    THEN LET parentDir == Dir(absolute) IN
         IF ~Stat(f, parentDir).ok THEN Fail("NoParent")
         ELSE LET realParent == EvalSymlinks(f, parentDir) IN
              IF ~realParent.ok THEN Fail("ParentError")
              ELSE IF ~PrefixAllowed(dirs, normalizePath(realParent.path))
                   THEN Fail("DeniedParent")
                   ELSE Ok(absolute)
    ELSE IF ~PrefixAllowed(dirs, normalizePath(real.path))
         THEN Fail("DeniedTarget")
         ELSE Ok(real.path)

\* FileManager.ValidatePath(requestedPath)
ValidatePath(dirs, f, h, c, requestedPath) ==
    LET expanded == expandHomePath(h, requestedPath) IN
    IF ~expanded.ok THEN expanded
    ELSE LET abs == Absolute(c, expanded.path) IN
         IF ~abs.ok THEN abs
         ELSE IF ~PrefixAllowed(dirs, normalizePath(abs.path))
              THEN Fail("DeniedPath")
              ELSE CheckReal(dirs, f, abs.path)

(***************************************************************************)
(* Package strings and bufio, as EditManager uses them.                    *)
(***************************************************************************)
\* s[i..] starts with sub (i counts from 1)
MatchAt(s, sub, i) ==
    /\ i + Len(sub) - 1 <= Len(s)
    /\ SubSeq(s, i, i + Len(sub) - 1) = sub

\* strings.Index(s, sub), counted from 1: the leftmost match, 0 when none
RECURSIVE IndexFrom(_, _, _)
IndexFrom(s, sub, i) ==
    IF i + Len(sub) - 1 > Len(s) THEN 0
    ELSE IF MatchAt(s, sub, i) THEN i
    ELSE IndexFrom(s, sub, i + 1)

Index(s, sub) == IndexFrom(s, sub, 1)

\* A faulty Contains that looks for the first character of sub only.
ContainsFirstChar(s, sub) ==
    sub = <<>> \/ \E i \in 1..Len(s) : s[i] = sub[1]

\* strings.Contains(s, sub)
Contains(s, sub) == Index(s, sub) > 0

\* A faulty Count that stops at the first match.
CountUpToOne(s, sub) == IF Index(s, sub) > 0 THEN 1 ELSE 0

\* strings.Count(s, sub): the matches that do not overlap, found left to
\* right; for an empty sub, one more than the length of s.
RECURSIVE CountFrom(_, _, _)
CountFrom(s, sub, i) ==
    LET j == IndexFrom(s, sub, i) IN
    IF j = 0 THEN 0 ELSE 1 + CountFrom(s, sub, j + Len(sub))

Count(s, sub) == IF sub = <<>> THEN Len(s) + 1 ELSE CountFrom(s, sub, 1)

\* A faulty Replace that keeps one character too many of the prefix.
ReplaceOffByOne(s, old, new) ==
    LET j == Index(s, old) IN
    IF old = new \/ j = 0 THEN s
    ELSE SubSeq(s, 1, j) \o new \o SubSeq(s, j + Len(old), Len(s))

\* strings.Replace(s, old, new, 1): the leftmost match replaced
ReplaceFirst(s, old, new) ==
    LET j == Index(s, old) IN
    IF old = new \/ j = 0 THEN s
    ELSE SubSeq(s, 1, j - 1) \o new \o SubSeq(s, j + Len(old), Len(s))

NL == "\n"
CR == "\r"

\* bufio.ScanLines drops one trailing carriage return of a line.
dropCR(line) ==
    IF line # <<>> /\ line[Len(line)] = CR THEN SubSeq(line, 1, Len(line) - 1) ELSE line

\* The lines bufio.Scanner yields: each ends at a newline, which is dropped;
\* text after the last newline is a line only when it is not empty.
RECURSIVE ScanFrom(_, _, _)
ScanFrom(s, i, cur) ==
    IF i > Len(s)
    THEN IF cur = <<>> THEN <<>> ELSE <<dropCR(cur)>>
    ELSE IF s[i] = NL
         THEN <<dropCR(cur)>> \o ScanFrom(s, i + 1, <<>>)
         ELSE ScanFrom(s, i + 1, Append(cur, s[i]))

ScanLines(s) == ScanFrom(s, 1, <<>>)

\* A faulty Join that ends the last line too.
RECURSIVE JoinLinesTrailing(_)
JoinLinesTrailing(lines) ==
    IF lines = <<>> THEN <<>> ELSE lines[1] \o <<NL>> \o JoinLinesTrailing(Tail(lines))

\* strings.Join(lines, "\n")
RECURSIVE JoinLines(_)
JoinLines(lines) ==
    IF lines = <<>> THEN <<>>
    ELSE IF Len(lines) = 1 THEN lines[1]
    ELSE lines[1] \o <<NL>> \o JoinLines(Tail(lines))

(***************************************************************************)
(* EditManager. Each operation below is the whole call, run alone.         *)
(***************************************************************************)
NoFile == <<"<nofile>">>
\* What the disk holds at the path of a directory that exists.
DirMark == <<"<dir>">>

\* addToHistory keeps only this many edits.
HistoryCap == 100

\* A faulty backup name that leaves the time out.
BackupNameNoStamp(filePath, now) == [base |-> Base(filePath), stamp |-> 0]

\* The name createBackup gives the backup it writes at time now:
\* filepath.Base(filePath) + "_" + now + ".bak", in the backup directory.
BackupName(filePath, now) == [base |-> Base(filePath), stamp |-> now]

\* createBackup(filePath): the content is read and written under BackupName.
\* Fails when the file cannot be read.
createBackup(d, b, filePath, now) ==
    IF d[filePath] = NoFile
    THEN [ok |-> FALSE, backupPath |-> BackupName(filePath, now), backups |-> b]
    ELSE LET name == BackupName(filePath, now) IN
         [ok |-> TRUE, backupPath |-> name,
          backups |-> [n \in DOMAIN b \cup {name} |->
                          IF n = name THEN d[filePath] ELSE b[n]]]

\* os.Remove(name) in the backup directory (an error is only logged)
RemoveBackup(b, name) == [n \in DOMAIN b \ {name} |-> b[n]]

\* A faulty addToHistory that never drops an entry.
addToHistoryUncapped(h, b, filePath, backupPath, now) ==
    [history |-> Append(h, [FilePath |-> filePath, BackupPath |-> backupPath,
                            Timestamp |-> now]),
     backups |-> b]

\* A faulty addToHistory that drops the oldest entry and leaves its backup.
addToHistoryKeepBackup(h, b, filePath, backupPath, now) ==
    LET h2 == Append(h, [FilePath |-> filePath, BackupPath |-> backupPath,
                         Timestamp |-> now])
    IN [history |-> IF Len(h2) > HistoryCap THEN Tail(h2) ELSE h2, backups |-> b]

\* addToHistory(filePath, backupPath): the entry is appended; beyond
\* HistoryCap entries the oldest is dropped and its backup file removed.
addToHistory(h, b, filePath, backupPath, now) ==
    LET entry == [FilePath |-> filePath, BackupPath |-> backupPath, Timestamp |-> now]
        h2 == Append(h, entry)
    IN IF Len(h2) > HistoryCap
       THEN [history |-> Tail(h2), backups |-> RemoveBackup(b, h2[1].BackupPath)]
       ELSE [history |-> h2, backups |-> b]

\* The state an EditManager call leaves, and the error it returns.
\* What opening path finds on the disk d: "file" or "dir" for an entry
\* (which is reached through directories), and for a missing one "none"
\* when the directories above it are there or the first that is not is
\* missing (ENOENT), "notdir" when it is a regular file (ENOTDIR). The
\* paths the disk does not hold are directories above it.
RECURSIVE Kind(_, _)
Kind(d, path) ==
    IF path \notin DOMAIN d THEN "dir"
    ELSE IF d[path] = DirMark THEN "dir"
    ELSE IF d[path] # NoFile THEN "file"
    ELSE IF Kind(d, Dir(path)) \in {"file", "notdir"} THEN "notdir"
    ELSE "none"

\* os.MkdirAll(path): path and every missing directory above it are made.
RECURSIVE MkdirAll(_, _)
MkdirAll(d, path) ==
    IF path \notin DOMAIN d THEN d
    ELSE [MkdirAll(d, Dir(path)) EXCEPT ![path] = DirMark]

Outcome(e, d, b, h, c) == [err |-> e, disk |-> d, backups |-> b, history |-> h, clock |-> c]

\* EditManager.StrReplace(filePath, oldStr, newStr)
StrReplace(d, b, h, c, filePath, oldStr, newStr) ==
    LET fileContent == d[filePath] IN
    IF fileContent \in {NoFile, DirMark} THEN Outcome("ReadError", d, b, h, c)
    ELSE IF ~Contains(fileContent, oldStr) THEN Outcome("NotFound", d, b, h, c)
    ELSE IF Count(fileContent, oldStr) > 1 THEN Outcome("Ambiguous", d, b, h, c)
    ELSE LET bk == createBackup(d, b, filePath, c)
             newContent == ReplaceFirst(fileContent, oldStr, newStr)
             d2 == [d EXCEPT ![filePath] = newContent]
             added == addToHistory(h, bk.backups, filePath, bk.backupPath, c + 1)
         IN IF ~bk.ok THEN Outcome("BackupError", d, b, h, c)
            ELSE Outcome("nil", d2, added.backups, added.history, c + 1)

\* A faulty test that lets every line number create the file.
CanCreateAlways(lineNumber) == TRUE

\* Insert: the line numbers with which a missing file is created.
CanCreate(lineNumber) == ~(lineNumber # 0 /\ lineNumber # -1)

\* A faulty EndLine that takes every negative line number for the end.
EndLineAnyNegative(lineNumber, count) == IF lineNumber < 0 THEN count ELSE lineNumber

\* Insert: the special value -1 stands for the number of lines.
EndLine(lineNumber, count) == IF lineNumber = -1 THEN count ELSE lineNumber

\* EditManager.Insert(filePath, lineNumber, text): a missing file is created
\* for the line numbers 0 and -1; os.Open failing for another reason (a
\* component of the path is a regular file) is 'failed to open file', and
\* a directory opens but cannot be read ('error reading file').
Insert(d, b, h, c, filePath, lineNumber, text) ==
    IF d[filePath] = NoFile
    THEN IF Kind(d, filePath) = "notdir" THEN Outcome("OpenError", d, b, h, c)
         ELSE IF ~CanCreate(lineNumber) THEN Outcome("FileNotFound", d, b, h, c)
         ELSE Outcome("nil",
                      [MkdirAll(d, Dir(filePath)) EXCEPT ![filePath] = text \o <<NL>>],
                      b, h, c)
    ELSE IF d[filePath] = DirMark THEN Outcome("ScanError", d, b, h, c)
    ELSE LET lines == ScanLines(d[filePath])
             n == EndLine(lineNumber, Len(lines))
         IN IF n < 0 \/ n > Len(lines) THEN Outcome("OutOfRange", d, b, h, c)
            ELSE LET bk == createBackup(d, b, filePath, c)
                     newLines == SubSeq(lines, 1, n) \o <<text>>
                                 \o SubSeq(lines, n + 1, Len(lines))
                     d2 == [d EXCEPT ![filePath] = JoinLines(newLines)]
                     added == addToHistory(h, bk.backups, filePath, bk.backupPath, c + 1)
                 IN IF ~bk.ok THEN Outcome("BackupError", d, b, h, c)
                    ELSE Outcome("nil", d2, added.backups, added.history, c + 1)

\* A faulty search that finds the oldest edit of filePath among the first i.
LastEditIndexOldest(h, filePath, i) ==
    LET found == { k \in 1..i : h[k].FilePath = filePath } IN
    IF found = {} THEN 0 ELSE CHOOSE k \in found : \A m \in found : k <= m

\* A faulty search that does not compare the paths.
LastEditIndexAny(h, filePath, i) == i

\* UndoEdit's search of the history: the index of the most recent edit of filePath,
\* 0 when there is none.
RECURSIVE LastEditIndex(_, _, _)
LastEditIndex(h, filePath, i) ==
    IF i = 0 THEN 0
    ELSE IF h[i].FilePath = filePath THEN i
    ELSE LastEditIndex(h, filePath, i - 1)

\* A faulty removal that drops the newest entry.
RemoveAtEnd(h, i) == SubSeq(h, 1, Len(h) - 1)

\* h without its i-th entry
RemoveAt(h, i) == SubSeq(h, 1, i - 1) \o SubSeq(h, i + 1, Len(h))

\* EditManager.UndoEdit(filePath)
UndoEdit(d, b, h, c, filePath) ==
    LET lastEditIndex == LastEditIndex(h, filePath, Len(h)) IN
    IF lastEditIndex = 0 THEN Outcome("NoHistory", d, b, h, c)
    ELSE LET entry == h[lastEditIndex] IN
         IF entry.BackupPath \notin DOMAIN b THEN Outcome("BackupReadError", d, b, h, c)
         ELSE Outcome("nil",
                      [d EXCEPT ![filePath] = b[entry.BackupPath]],
                      RemoveBackup(b, entry.BackupPath),
                      RemoveAt(h, lastEditIndex),
                      c)

\* EditManager.GetEditHistory(filePath)
GetEditHistory(h, filePath) == SelectSeq(h, LAMBDA e : e.FilePath = filePath)

(***************************************************************************)
(* The files, arguments and calls of EditManager that are checked.         *)
(***************************************************************************)
\* Two files with the same base name in different directories.
File1 == <<Sep, "a", Sep, "f">>
File2 == <<Sep, "o", Sep, "f">>
EditPaths == { File1, File2 }
\* Their parent directories.
EditDirs == { Dir(p) : p \in EditPaths }

\* The longest file content, in characters.
MaxLen == 5
\* The number of backups created in a run.
MaxClock == 3

\* What the files hold at the start: one line, two lines, a line ended the
\* DOS way, or nothing. The directory of a file that exists, exists.
InitContents ==
    { <<"a">>, <<"a", "b", "a">>, <<"a", "a", "a">>, <<"a", NL, "a">>, <<"a", CR, NL>>, NoFile }

InitDisks ==
    { d \in [EditPaths \cup EditDirs -> InitContents \cup {DirMark}] :
        /\ \A p \in EditPaths : d[p] \in InitContents
        /\ d[File2] \in { <<"a">>, NoFile }
        /\ d[Dir(File2)] = DirMark
        /\ d[Dir(File1)] \in { DirMark, NoFile }
        /\ d[File1] # NoFile => d[Dir(File1)] = DirMark }

\* The arguments of the calls: all of them on File1, one of each on File2.
OldStrs(p) == IF p = File1 THEN { <<"a">>, <<"b">>, <<"a", "a">> } ELSE { <<"a">> }
NewStrs(p) == IF p = File1 THEN { <<>>, <<"b">> } ELSE { <<"b">> }
Texts == { <<"b">> }
LineNumbers(p) == IF p = File1 THEN { -2, -1, 0, 1, 2 } ELSE { 0 }

NoCall == [op |-> "none"]

\* The state of the editor while only ValidatePath is looked at, and of the
\* validator while only the editor is.
EditIdle ==
    /\ disk = [p \in EditPaths \cup EditDirs |-> NoFile]
    /\ backups = <<>>
    /\ history = <<>>
    /\ clock = 0
    /\ call = NoCall
    /\ ret = "none"
    /\ log = <<>>
    /\ streak = 0

\* No call is under way.
NoRun == [pc |-> "idle"]

\* No worker calls the editor.
NoTrace == [edits |-> 0, ids |-> <<>>, next |-> 1, restored |-> {},
            removed |-> {}, twice |-> FALSE]
PoolIdle ==
    /\ workers = <<>>
    /\ mutex = 0
    /\ trace = NoTrace

\* No tool was called.
NoRequest == [name |-> "none"]
NoResponse == [isError |-> FALSE, text |-> <<>>, err |-> "nil"]
ToolIdle ==
    /\ request = NoRequest
    /\ response = NoResponse

\* No server and no transport were made.
NoServer == [initialized |-> FALSE, handlers |-> {}]
NoMessage == [tick |-> 0]
NoConfig == [kind |-> "none"]
NoTransport == [running |-> FALSE]
McpIdle ==
    /\ server = NoServer
    /\ served = NoMessage
    /\ config = NoConfig
    /\ transport = NoTransport
    /\ conns = <<>>

PathIdle ==
    /\ allowedDirectories = <<>>
    /\ fs = <<>>
    /\ home = NoHome
    /\ cwd = NoCwd
    /\ vpReq = <<>>
    /\ vpRes = [ok |-> FALSE, path |-> <<>>, err |-> "nil"]

\* NewEditManager: an empty history; the files have some content or are missing.
InitEdit ==
    /\ disk \in InitDisks
    /\ backups = <<>>
    /\ history = <<>>
    /\ clock = 0
    /\ call = NoCall
    /\ ret = "none"
    /\ log = <<>>
    /\ streak = 0
    /\ run = NoRun
    /\ PoolIdle
    /\ ToolIdle
    /\ McpIdle
    /\ PathIdle

\* The bounds of the model: no file grows beyond MaxLen characters and at
\* most MaxClock backups are created.
WithinBounds(out) ==
    /\ out.clock <= MaxClock
    /\ \A p \in EditPaths : out.disk[p] = NoFile \/ Len(out.disk[p]) <= MaxLen

Returns(out) ==
    /\ WithinBounds(out)
    /\ ret' = out.err
    /\ disk' = out.disk
    /\ backups' = out.backups
    /\ history' = out.history
    /\ clock' = out.clock

\* The log after a recorded edit of p, whose content was before: like the
\* history, it holds the last HistoryCap edits.
LogEdit(l, p, before) ==
    LET l2 == Append(l, [path |-> p, before |-> before])
    IN IF Len(l2) > HistoryCap THEN Tail(l2) ELSE l2

\* The index of the last entry of the log for p, 0 when there is none.
RECURSIVE LastLogged(_, _, _)
LastLogged(l, p, i) ==
    IF i = 0 THEN 0 ELSE IF l[i].path = p THEN i ELSE LastLogged(l, p, i - 1)

\* The log after an undo of p.
LogUndo(l, p) ==
    LET i == LastLogged(l, p, Len(l)) IN
    IF i = 0 THEN l ELSE SubSeq(l, 1, i - 1) \o SubSeq(l, i + 1, Len(l))

\* An edit of an existing file that returned no error is logged.
Logs(out, p) ==
    /\ log' = IF out.err = "nil" /\ disk[p] # NoFile THEN LogEdit(log, p, disk[p]) ELSE log
    /\ streak' = 0

StrReplaceCall ==
    \E p \in EditPaths : \E old \in OldStrs(p), new \in NewStrs(p) :
        LET out == StrReplace(disk, backups, history, clock, p, old, new) IN
        /\ call' = [op |-> "StrReplace", path |-> p, old |-> old, new |-> new,
                    before |-> disk[p]]
        /\ Returns(out)
        /\ Logs(out, p)
        /\ UNCHANGED <<pathVars, stepVars, poolVars, toolVars, mcpVars>>

InsertCall ==
    \E p \in EditPaths : \E n \in LineNumbers(p), text \in Texts :
        LET out == Insert(disk, backups, history, clock, p, n, text) IN
        /\ call' = [op |-> "Insert", path |-> p, line |-> n, text |-> text,
                    before |-> disk[p]]
        /\ Returns(out)
        /\ Logs(out, p)
        /\ UNCHANGED <<pathVars, stepVars, poolVars, toolVars, mcpVars>>

UndoEditCall ==
    \E p \in EditPaths :
        LET out == UndoEdit(disk, backups, history, clock, p) IN
        /\ call' = [op |-> "UndoEdit", path |-> p, before |-> disk[p],
                    afterReplace |-> (call.op = "StrReplace" /\ call.path = p
                                      /\ ret = "nil")]
        /\ Returns(out)
        /\ log' = IF out.err = "nil" THEN LogUndo(log, p) ELSE log
        /\ streak' = IF call.op = "UndoEdit" /\ call.path = p
                      THEN IF streak <= MaxClock THEN streak + 1 ELSE streak
                      ELSE 1
        /\ UNCHANGED <<pathVars, stepVars, poolVars, toolVars, mcpVars>>

NextEdit == StrReplaceCall \/ InsertCall \/ UndoEditCall

SpecEdit == InitEdit /\ [][NextEdit]_vars

(***************************************************************************)
(* The editor at the capacity of its history: the runs start after          *)
(* HistoryCap - 1 or HistoryCap successful edits.                           *)
(***************************************************************************)
\* The edits made beyond the capacity, and the records below it that an
\* UndoEdit may still remove.
MaxOver == 2
MaxUnder == 2

CapDisk == [p \in EditPaths \cup EditDirs |-> IF p \in EditDirs THEN DirMark ELSE <<"a">>]

\* The file of the k-th edit of the warm-up: with the pattern 1 the first
\* edit is of File2 and all later ones of File1, with the pattern 2 all
\* are of File1.
WarmPath(k, pat) == IF pat = 1 /\ k = 1 THEN File2 ELSE File1

\* The other one-letter content.
Toggle(content) == IF content = <<"a">> THEN <<"b">> ELSE <<"a">>

\* The editor w after the edits lo..hi of the warm-up, each a successful
\* StrReplace of the one letter of its file (the range is halved to keep
\* the evaluation shallow).
RECURSIVE WarmRange(_, _, _, _)
WarmRange(w, lo, hi, pat) ==
    IF lo > hi \/ w.err # "nil" THEN w
    ELSE IF lo = hi
    THEN LET p == WarmPath(lo, pat)
         IN StrReplace(w.disk, w.backups, w.history, w.clock, p,
                       w.disk[p], Toggle(w.disk[p]))
    ELSE LET mid == (lo + hi) \div 2
         IN WarmRange(WarmRange(w, lo, mid, pat), mid + 1, hi, pat)

\* The editor after k successful edits.
Warm(k, pat) == WarmRange(Outcome("nil", CapDisk, <<>>, <<>>, 0), 1, k, pat)

InitCap ==
    \E k \in {HistoryCap - 1, HistoryCap}, pat \in {1, 2} :
        LET w == Warm(k, pat) IN
        /\ disk = w.disk
        /\ backups = w.backups
        /\ history = w.history
        /\ clock = w.clock
        /\ call = NoCall
        /\ ret = "none"
        /\ log = [i \in 1..Len(w.history) |->
                     [path |-> w.history[i].FilePath,
                      before |-> w.backups[w.history[i].BackupPath]]]
        /\ streak = 0
        /\ run = NoRun
        /\ PoolIdle
        /\ ToolIdle
        /\ McpIdle
        /\ PathIdle

CapReturns(out) ==
    /\ out.clock <= HistoryCap + MaxOver
    /\ \A p \in EditPaths : out.disk[p] = NoFile \/ Len(out.disk[p]) <= MaxLen
    /\ ret' = out.err
    /\ disk' = out.disk
    /\ backups' = out.backups
    /\ history' = out.history
    /\ clock' = out.clock

CapStrReplaceCall ==
    \E p \in EditPaths, old \in { <<"a">>, <<"b">> } :
        LET out == StrReplace(disk, backups, history, clock, p, old, Toggle(old)) IN
        /\ call' = [op |-> "StrReplace", path |-> p, old |-> old, new |-> Toggle(old),
                    before |-> disk[p]]
        /\ CapReturns(out)
        /\ Logs(out, p)
        /\ UNCHANGED <<pathVars, stepVars, poolVars, toolVars, mcpVars>>

CapInsertCall ==
    \E n \in {0, 2}, text \in Texts :
        LET out == Insert(disk, backups, history, clock, File1, n, text) IN
        /\ call' = [op |-> "Insert", path |-> File1, line |-> n, text |-> text,
                    before |-> disk[File1]]
        /\ CapReturns(out)
        /\ Logs(out, File1)
        /\ UNCHANGED <<pathVars, stepVars, poolVars, toolVars, mcpVars>>

CapUndoEditCall ==
    \E p \in EditPaths :
        LET out == UndoEdit(disk, backups, history, clock, p) IN
        /\ Len(history) > HistoryCap - MaxUnder
        /\ call' = [op |-> "UndoEdit", path |-> p, before |-> disk[p],
                    afterReplace |-> (call.op = "StrReplace" /\ call.path = p
                                      /\ ret = "nil")]
        /\ CapReturns(out)
        /\ log' = IF out.err = "nil" THEN LogUndo(log, p) ELSE log
        /\ streak' = IF call.op = "UndoEdit" /\ call.path = p
                      THEN IF streak <= MaxClock THEN streak + 1 ELSE streak
                      ELSE 1
        /\ UNCHANGED <<pathVars, stepVars, poolVars, toolVars, mcpVars>>

NextCap == CapStrReplaceCall \/ CapInsertCall \/ CapUndoEditCall

SpecCap == InitCap /\ [][NextCap]_vars

(***************************************************************************)
(* The editor at the capacity of its history, where the os.Remove of the   *)
(* evicted backup may fail.                                                *)
(***************************************************************************)
\* A faulty addToHistory that keeps the oldest entry when its backup cannot
\* be removed.
addToHistoryBlocked(h, b, filePath, backupPath, now, io) ==
    IF io = "ok" THEN addToHistory(h, b, filePath, backupPath, now)
    ELSE [history |-> Append(h, [FilePath |-> filePath, BackupPath |-> backupPath,
                                 Timestamp |-> now]),
          backups |-> b]

\* addToHistory where the os.Remove of line 82 has the outcome io: its
\* failure is written to stderr and the oldest entry is dropped all the same.
addToHistoryIO(h, b, filePath, backupPath, now, io) ==
    LET added == addToHistory(h, b, filePath, backupPath, now)
    IN IF io = "ok" THEN added ELSE [history |-> added.history, backups |-> b]

\* The outcome out of an edit of the existing file filePath, made in the
\* state d, b, h, c, when the os.Remove of addToHistory has the outcome io.
Evicting(out, d, b, h, c, filePath, io) ==
    IF out.err # "nil" \/ d[filePath] = NoFile THEN out
    ELSE LET bk == createBackup(d, b, filePath, c)
             added == addToHistoryIO(h, bk.backups, filePath, bk.backupPath, c + 1, io)
         IN [out EXCEPT !.history = added.history, !.backups = added.backups]

RemoveOutcomes == {"ok", "failed"}

EvictStrReplaceCall ==
    \E p \in {File1}, old \in { <<"a">>, <<"b">> }, io \in RemoveOutcomes :
        LET out == Evicting(StrReplace(disk, backups, history, clock, p, old, Toggle(old)),
                            disk, backups, history, clock, p, io)
        IN /\ call' = [op |-> "StrReplace", path |-> p, old |-> old,
                       new |-> Toggle(old), before |-> disk[p]]
           /\ CapReturns(out)
           /\ Logs(out, p)
           /\ UNCHANGED <<pathVars, stepVars, poolVars, toolVars, mcpVars>>

EvictInsertCall ==
    \E n \in {0}, text \in Texts, io \in RemoveOutcomes :
        LET out == Evicting(Insert(disk, backups, history, clock, File1, n, text),
                            disk, backups, history, clock, File1, io)
        IN /\ call' = [op |-> "Insert", path |-> File1, line |-> n, text |-> text,
                       before |-> disk[File1]]
           /\ CapReturns(out)
           /\ Logs(out, File1)
           /\ UNCHANGED <<pathVars, stepVars, poolVars, toolVars, mcpVars>>

NextEvict == EvictStrReplaceCall \/ EvictInsertCall \/ CapUndoEditCall

SpecEvict == InitCap /\ [][NextEvict]_vars

(***************************************************************************)
(* The editor with the file-system calls of StrReplace and Insert taken    *)
(* one at a time, each of which may fail: the call reads the file, writes  *)
(* the backup, writes the file and records the edit. One call runs at a    *)
(* time.                                                                   *)
(***************************************************************************)
\* The file-system calls that fail in a run.
MaxFaults == 1

StepDisks ==
    { d \in InitDisks : d[File1] \in { <<"a">>, <<"a", NL, "a">>, NoFile } /\ d[File2] = <<"a">> }

StepOldStrs == { <<"a">>, <<"b">> }
StepLineNumbers == { 0, 3 }

\* os.WriteFile(name, data) with the outcome io: the file written, nothing
\* done, or the file opened (and so emptied) and the write failed.
WriteFileIO(files, name, data, io) ==
    IF io = "failed" THEN files
    ELSE [n \in DOMAIN files \cup {name} |->
             IF n # name THEN files[n]
             ELSE IF io = "ok" THEN data ELSE <<>>]

\* A faulty createBackup that reports no error when the backup is not written.
createBackupSilent(d, b, filePath, now, io) ==
    IF io = "ok" THEN createBackup(d, b, filePath, now)
    ELSE [ok |-> TRUE, backupPath |-> BackupName(filePath, now), backups |-> b]

\* createBackup where os.WriteFile of the backup has the outcome io.
createBackupIO(d, b, filePath, now, io) ==
    IF io = "ok" THEN createBackup(d, b, filePath, now)
    ELSE [ok |-> FALSE, backupPath |-> BackupName(filePath, now),
          backups |-> IF d[filePath] = NoFile THEN b
                      ELSE WriteFileIO(b, BackupName(filePath, now), d[filePath], io)]

InitSteps ==
    /\ disk \in StepDisks
    /\ backups = <<>>
    /\ history = <<>>
    /\ clock = 0
    /\ call = NoCall
    /\ ret = "none"
    /\ log = <<>>
    /\ streak = 0
    /\ run = [pc |-> "idle", faults |-> 0, warned |-> FALSE]
    /\ PoolIdle
    /\ ToolIdle
    /\ McpIdle
    /\ PathIdle

\* The call under way returns the error e.
Finish(e) ==
    /\ ret' = e
    /\ call' = [op |-> run.op, path |-> run.path, before |-> run.before]
    /\ run' = [pc |-> "idle", faults |-> run.faults, warned |-> run.warned]

\* What may happen to a write: it succeeds, or fails while fewer than
\* MaxFaults writes have failed.
IoOutcomes ==
    IF run.faults < MaxFaults THEN {"ok", "failed", "truncated"} ELSE {"ok"}

Fault(io) == IF io = "ok" THEN run.faults ELSE run.faults + 1

\* The variables the steps of the editor leave alone.
StepFrame == UNCHANGED <<pathVars, log, streak, poolVars, toolVars, mcpVars>>

\* A call of StrReplace, Insert or UndoEdit begins.
BeginStrReplace ==
    \E p \in EditPaths, old \in StepOldStrs :
        /\ run.pc = "idle"
        /\ run' = [pc |-> "read", op |-> "StrReplace", path |-> p, old |-> old,
                   new |-> Toggle(old), before |-> disk[p], hist |-> history,
                   faults |-> run.faults, warned |-> run.warned]
        /\ UNCHANGED <<disk, backups, history, clock, call, ret>>
        /\ StepFrame

BeginInsert ==
    \E n \in StepLineNumbers, text \in Texts :
        /\ run.pc = "idle"
        /\ run' = [pc |-> "read", op |-> "Insert", path |-> File1, line |-> n,
                   text |-> text, before |-> disk[File1], hist |-> history,
                   faults |-> run.faults, warned |-> run.warned]
        /\ UNCHANGED <<disk, backups, history, clock, call, ret>>
        /\ StepFrame

\* StrReplace, lines 93-109: the file is read and the match counted.
StrReplaceRead ==
    /\ run.pc = "read" /\ run.op = "StrReplace"
    /\ LET fileContent == disk[run.path] IN
       IF fileContent \in {NoFile, DirMark} THEN Finish("ReadError")
       ELSE IF ~Contains(fileContent, run.old) THEN Finish("NotFound")
       ELSE IF Count(fileContent, run.old) > 1 THEN Finish("Ambiguous")
       ELSE /\ run' = [run EXCEPT !.pc = "backup"] @@
                      [newContent |-> ReplaceFirst(fileContent, run.old, run.new)]
            /\ UNCHANGED <<call, ret>>
    /\ UNCHANGED <<disk, backups, history, clock>>
    /\ StepFrame

\* Insert, lines 136-187: the file is opened, its lines are read and the line
\* number is checked.
InsertRead ==
    /\ run.pc = "read" /\ run.op = "Insert"
    /\ IF disk[run.path] = NoFile
       THEN IF Kind(disk, run.path) = "notdir" THEN Finish("OpenError")
            ELSE IF ~CanCreate(run.line) THEN Finish("FileNotFound")
            ELSE run' = [run EXCEPT !.pc = "create"] /\ UNCHANGED <<call, ret>>
       ELSE IF disk[run.path] = DirMark THEN Finish("ScanError")
       ELSE LET lines == ScanLines(disk[run.path])
                n == EndLine(run.line, Len(lines))
            IN IF n < 0 \/ n > Len(lines) THEN Finish("OutOfRange")
               ELSE /\ run' = [run EXCEPT !.pc = "backup"] @@
                              [newContent |->
                                  JoinLines(SubSeq(lines, 1, n) \o <<run.text>>
                                            \o SubSeq(lines, n + 1, Len(lines)))]
                    /\ UNCHANGED <<call, ret>>
    /\ UNCHANGED <<disk, backups, history, clock>>
    /\ StepFrame

\* Insert, lines 148-160: the missing file is created. os.MkdirAll makes
\* the parent directory and may fail when there is one to make ('failed to
\* create parent directory'); then os.WriteFile writes the file and may
\* fail, leaving the directory made ('failed to create file').
InsertCreate ==
    /\ run.pc = "create"
    /\ \E mk \in IoOutcomes \ {"truncated"}, io \in IoOutcomes :
        /\ mk = "ok" \/ Kind(disk, Dir(run.path)) # "dir"
        /\ IF mk = "failed"
           THEN /\ disk' = disk
                /\ ret' = "MkdirError"
                /\ run' = [pc |-> "idle", faults |-> Fault(mk), warned |-> run.warned]
           ELSE /\ disk' = WriteFileIO(MkdirAll(disk, Dir(run.path)),
                                       run.path, run.text \o <<NL>>, io)
                /\ ret' = IF io = "ok" THEN "nil" ELSE "CreateError"
                /\ run' = [pc |-> "idle", faults |-> Fault(io), warned |-> run.warned]
        /\ call' = [op |-> run.op, path |-> run.path, before |-> run.before]
    /\ UNCHANGED <<backups, history, clock>>
    /\ StepFrame

\* createBackup, called at line 112 or 190.
BackupStep ==
    /\ run.pc = "backup"
    /\ clock < MaxClock
    /\ \E io \in IoOutcomes :
        LET bk == createBackupIO(disk, backups, run.path, clock, io) IN
        /\ backups' = bk.backups
        /\ clock' = clock + 1
        /\ IF bk.ok
           THEN /\ run' = [run EXCEPT !.pc = "write", !.faults = Fault(io)] @@
                          [backupPath |-> bk.backupPath]
                /\ UNCHANGED <<call, ret>>
           ELSE /\ ret' = "BackupError"
                /\ call' = [op |-> run.op, path |-> run.path, before |-> run.before]
                /\ run' = [pc |-> "idle", faults |-> Fault(io), warned |-> run.warned]
    /\ UNCHANGED <<disk, history>>
    /\ StepFrame

\* os.WriteFile(filePath, newContent), line 121 or 203.
WriteStep ==
    /\ run.pc = "write"
    /\ Len(run.newContent) <= MaxLen
    /\ \E io \in IoOutcomes :
        /\ disk' = WriteFileIO(disk, run.path, run.newContent, io)
        /\ IF io = "ok"
           THEN /\ run' = [run EXCEPT !.pc = "record"]
                /\ UNCHANGED <<call, ret>>
           ELSE /\ ret' = "WriteError"
                /\ call' = [op |-> run.op, path |-> run.path, before |-> run.before]
                /\ run' = [pc |-> "idle", faults |-> Fault(io), warned |-> run.warned]
    /\ UNCHANGED <<backups, history, clock>>
    /\ StepFrame

\* addToHistory, called at line 126 or 208, and the return.
RecordStep ==
    /\ run.pc = "record"
    /\ LET added == addToHistory(history, backups, run.path, run.backupPath, clock) IN
       /\ history' = added.history
       /\ backups' = added.backups
    /\ Finish("nil")
    /\ UNCHANGED <<disk, clock>>
    /\ StepFrame

\* UndoEdit where os.WriteFile of the file has the outcome wr and os.Remove
\* of the backup the outcome rm: a failed write is 'failed to restore file'
\* and keeps the backup and the record; a failed removal is only logged,
\* the record is dropped and the backup file stays.
UndoEditIO(d, b, h, c, filePath, wr, rm) ==
    LET lastEditIndex == LastEditIndex(h, filePath, Len(h)) IN
    IF lastEditIndex = 0 THEN Outcome("NoHistory", d, b, h, c)
    ELSE LET entry == h[lastEditIndex] IN
         IF entry.BackupPath \notin DOMAIN b THEN Outcome("BackupReadError", d, b, h, c)
         ELSE IF wr # "ok"
              THEN Outcome("RestoreError",
                           WriteFileIO(d, filePath, b[entry.BackupPath], wr), b, h, c)
         ELSE Outcome("nil",
                      WriteFileIO(d, filePath, b[entry.BackupPath], wr),
                      IF rm = "ok" THEN RemoveBackup(b, entry.BackupPath) ELSE b,
                      RemoveAt(h, lastEditIndex),
                      c)

\* The file-system calls of UndoEdit that fail: the write, or else the
\* removal, when the call gets that far.
UndoFaults(out, wr, rm) ==
    IF out.err \in {"NoHistory", "BackupReadError"} THEN 0
    ELSE IF wr # "ok" \/ rm # "ok" THEN 1 ELSE 0

\* UndoEdit, all of it under the lock of the history.
UndoStep ==
    \E p \in EditPaths, wr \in IoOutcomes, rm \in IoOutcomes \ {"truncated"} :
        LET out == UndoEditIO(disk, backups, history, clock, p, wr, rm) IN
        /\ run.pc = "idle"
        /\ disk' = out.disk
        /\ backups' = out.backups
        /\ history' = out.history
        /\ ret' = out.err
        /\ call' = [op |-> "UndoEdit", path |-> p, before |-> disk[p]]
        /\ run' = [run EXCEPT !.faults = run.faults + UndoFaults(out, wr, rm),
                              !.warned = @ \/ (out.err = "nil" /\ rm # "ok")]
        /\ UNCHANGED clock
        /\ StepFrame

NextSteps ==
    \/ BeginStrReplace \/ BeginInsert
    \/ StrReplaceRead \/ InsertRead \/ InsertCreate
    \/ BackupStep \/ WriteStep \/ RecordStep
    \/ UndoStep

SpecSteps == InitSteps /\ [][NextSteps]_vars

(***************************************************************************)
(* The editor called by concurrent workers (the network transport serves   *)
(* each connection in a goroutine of its own). Each call is taken one      *)
(* file-system call at a time; addToHistory and UndoEdit hold historyMutex.*)
(* Two workers that read the clock one after the other may read the same   *)
(* value.                                                                  *)
(***************************************************************************)
Workers == {1, 2}

\* The edits the workers make in a run, those that return at their first
\* check left out.
MaxEdits == 2

\* Both files hold two letters.
PoolDisk ==
    [p \in EditPaths \cup EditDirs |->
        IF p \in EditDirs THEN DirMark ELSE <<"a", "c">>]

\* The replacements the workers ask for: one letter by another.
PoolEdits(p) ==
    IF p = File1
    THEN { [old |-> <<"a">>, new |-> <<"b">>], [old |-> <<"c">>, new |-> <<"d">>] }
    ELSE { [old |-> <<"a">>, new |-> <<"b">>] }

InitPool ==
    /\ disk = PoolDisk
    /\ backups = <<>>
    /\ history = <<>>
    /\ clock = 0
    /\ call = NoCall
    /\ ret = "none"
    /\ log = <<>>
    /\ streak = 0
    /\ run = NoRun
    /\ workers = [w \in Workers |-> NoRun]
    /\ mutex = 0
    /\ trace = NoTrace
    /\ ToolIdle
    /\ McpIdle
    /\ PathIdle

\* The variables the workers leave alone.
PoolFrame == UNCHANGED <<pathVars, call, ret, log, streak, stepVars, toolVars, mcpVars>>

\* A mutex that excludes nobody.
FreeAlways(m) == TRUE

\* sync.RWMutex.Lock returns when nobody holds the mutex.
Free(m) == m = 0

\* sync.RWMutex.RLock returns when no writer holds the mutex; other readers
\* may hold it.
FreeToRead(m) == m <= 0

\* A faulty Unlock that leaves the mutex with worker w.
UnlockNever(m, w) == m

\* sync.RWMutex.Unlock, deferred by UndoEdit: worker w gives the mutex up.
Unlock(m, w) == IF m = w THEN 0 ELSE m

\* Worker w goes on to the place pc, with the local variables loc.
Goes(w, pc, loc) ==
    workers' = [workers EXCEPT ![w] = [workers[w] EXCEPT !.pc = pc] @@ loc]

\* The call of worker w returns.
WorkerReturns(w) == workers' = [workers EXCEPT ![w] = NoRun]

\* Worker w is idle and may begin a call; of the idle workers the first
\* begins, which leaves no interleaving out as the workers are alike.
Idle(w) ==
    /\ workers[w].pc = "idle"
    /\ \A v \in Workers : v < w => workers[v].pc # "idle"

\* StrReplace, lines 91-109: a worker calls StrReplace; the file is read and
\* the match counted.
PoolStrReplaceRead ==
    \E w \in Workers, p \in EditPaths :
        \E e \in PoolEdits(p) :
            LET fileContent == disk[p] IN
            /\ Idle(w)
            /\ trace.edits < MaxEdits
            /\ IF /\ fileContent \notin {NoFile, DirMark}
                  /\ Contains(fileContent, e.old)
                  /\ Count(fileContent, e.old) <= 1
               THEN /\ workers' = [workers EXCEPT ![w] =
                           [pc |-> "backup", op |-> "StrReplace", path |-> p,
                            old |-> e.old, new |-> e.new,
                            fileContent |-> fileContent]]
                    /\ trace' = [trace EXCEPT !.edits = @ + 1]
               ELSE WorkerReturns(w) /\ UNCHANGED trace
            /\ UNCHANGED <<disk, backups, history, clock, mutex>>
            /\ PoolFrame

\* createBackup, lines 49-57: the file is read again and the clock is read,
\* which has advanced since the last reading or has not (in a run it
\* advances MaxEdits times at most).
PoolBackupRead ==
    \E w \in Workers, now \in {clock, clock + 1} :
        LET me == workers[w] IN
        /\ me.pc = "backup"
        /\ now <= MaxEdits
        /\ clock' = now
        /\ IF disk[me.path] = NoFile
           THEN WorkerReturns(w)
           ELSE Goes(w, "backupWrite", [content |-> disk[me.path], now |-> now])
        /\ UNCHANGED <<disk, backups, history, mutex, trace>>
        /\ PoolFrame

\* createBackup, line 59: the content read is written under the backup name.
PoolBackupWrite ==
    \E w \in Workers :
        LET me == workers[w]
            bk == createBackup([disk EXCEPT ![me.path] = me.content], backups,
                               me.path, me.now)
        IN /\ me.pc = "backupWrite"
           /\ backups' = bk.backups
           /\ Goes(w, "write", [backupPath |-> bk.backupPath])
           /\ UNCHANGED <<disk, history, clock, mutex, trace>>
           /\ PoolFrame

\* A faulty StrReplace that replaces in the content the file has when it is
\* written.
NewContentFresh(me, d) == ReplaceFirst(d[me.path], me.old, me.new)

\* StrReplace, line 118: the new content is computed from the content read
\* at line 93, whatever the file holds by now.
NewContent(me, d) == ReplaceFirst(me.fileContent, me.old, me.new)

\* os.WriteFile(filePath, newContent), line 121.
PoolWrite ==
    \E w \in Workers :
        LET me == workers[w] IN
        /\ me.pc = "write"
        /\ disk' = [disk EXCEPT ![me.path] = NewContent(me, disk)]
        /\ Goes(w, "record", [newContent |-> NewContent(me, disk)])
        /\ UNCHANGED <<backups, history, clock, mutex, trace>>
        /\ PoolFrame

\* What the trace keeps of the edit of worker w, recorded as number id.
Traced(w, id) ==
    [id |-> id, path |-> workers[w].path, read |-> workers[w].fileContent,
     wrote |-> workers[w].newContent, captured |-> workers[w].content]

\* addToHistory under the mutex, lines 67-88, and the return of the call:
\* the clock is read again for the Timestamp of the record (line 74).
PoolRecord ==
    \E w \in Workers, now \in {clock, clock + 1} :
        LET me == workers[w]
            added == addToHistory(history, backups, me.path, me.backupPath, now)
            ids == Append(trace.ids, Traced(w, trace.next))
        IN /\ me.pc = "record"
           /\ Free(mutex)
           /\ now <= MaxEdits
           /\ clock' = now
           /\ history' = added.history
           /\ backups' = added.backups
           /\ WorkerReturns(w)
           /\ trace' = [trace EXCEPT
                           !.ids = IF Len(ids) > HistoryCap THEN Tail(ids) ELSE ids,
                           !.next = @ + 1]
           /\ UNCHANGED <<disk, mutex>>
           /\ PoolFrame

\* A worker calls UndoEdit, line 214, for the first file and waits for the
\* mutex.
PoolUndoCall ==
    \E w \in Workers, p \in {File1} :
        /\ Idle(w)
        /\ workers' = [workers EXCEPT ![w] = [pc |-> "lock", op |-> "UndoEdit", path |-> p]]
        /\ UNCHANGED <<disk, backups, history, clock, mutex, trace>>
        /\ PoolFrame

\* UndoEdit, lines 215-229: the mutex is taken and the history searched; with
\* no record for the file the call returns and the mutex is released.
PoolUndoLock ==
    \E w \in Workers :
        LET me == workers[w]
            lastEditIndex == LastEditIndex(history, me.path, Len(history))
        IN /\ me.pc = "lock"
           /\ Free(mutex)
           /\ IF lastEditIndex = 0
              THEN WorkerReturns(w) /\ mutex' = Unlock(w, w) /\ UNCHANGED trace
              ELSE /\ workers' = [workers EXCEPT ![w] =
                          [pc |-> "restoreRead", op |-> "UndoEdit", path |-> me.path,
                           lastEditIndex |-> lastEditIndex,
                           entry |-> history[lastEditIndex],
                           traced |-> trace.ids[lastEditIndex]]]
                   /\ mutex' = w
                   /\ UNCHANGED trace
           /\ UNCHANGED <<disk, backups, history, clock>>
           /\ PoolFrame

\* UndoEdit, lines 234-237: the backup is read.
PoolUndoRead ==
    \E w \in Workers :
        LET me == workers[w] IN
        /\ me.pc = "restoreRead"
        /\ IF me.entry.BackupPath \notin DOMAIN backups
           THEN WorkerReturns(w) /\ mutex' = Unlock(mutex, w)
           ELSE /\ Goes(w, "restoreWrite", [backupContent |-> backups[me.entry.BackupPath]])
                /\ UNCHANGED mutex
        /\ UNCHANGED <<disk, backups, history, clock, trace>>
        /\ PoolFrame

\* The record that is the i-th of the history, as the trace knows it (none
\* when the history is shorter).
TracedAt(i) == IF i \in DOMAIN trace.ids THEN {trace.ids[i]} ELSE {}

\* UndoEdit, line 239: the file is written with the content of the backup.
PoolUndoWrite ==
    \E w \in Workers :
        LET me == workers[w] IN
        /\ me.pc = "restoreWrite"
        /\ disk' = [disk EXCEPT ![me.path] = me.backupContent]
        /\ Goes(w, "remove", <<>>)
        /\ trace' = [trace EXCEPT
                        !.restored = @ \cup {me.traced},
                        !.twice = @ \/ me.traced \in trace.restored]
        /\ UNCHANGED <<backups, history, clock, mutex>>
        /\ PoolFrame

\* UndoEdit, lines 244-251: the backup file and the entry are removed, the
\* mutex is released and the call returns.
PoolUndoRemove ==
    \E w \in Workers :
        LET me == workers[w] IN
        /\ me.pc = "remove"
        /\ backups' = RemoveBackup(backups, me.entry.BackupPath)
        /\ history' = RemoveAt(history, me.lastEditIndex)
        /\ mutex' = Unlock(mutex, w)
        /\ WorkerReturns(w)
        /\ trace' = [trace EXCEPT
                        !.ids = RemoveAt(@, me.lastEditIndex),
                        !.removed = @ \cup TracedAt(me.lastEditIndex),
                        !.twice = @ \/ TracedAt(me.lastEditIndex) \cap trace.removed # {}]
        /\ UNCHANGED <<disk, clock>>
        /\ PoolFrame

\* A worker calls GetEditHistory, line 255, and waits for the mutex.
PoolHistoryCall ==
    \E w \in Workers, p \in {File1} :
        /\ Idle(w)
        /\ workers' = [workers EXCEPT ![w] = [pc |-> "rlock", op |-> "GetEditHistory",
                                              path |-> p]]
        /\ UNCHANGED <<disk, backups, history, clock, mutex, trace>>
        /\ PoolFrame

\* GetEditHistory, line 256: the mutex is taken for reading.
PoolHistoryRLock ==
    \E w \in Workers :
        /\ workers[w].pc = "rlock"
        /\ FreeToRead(mutex)
        /\ mutex' = mutex - 1
        /\ Goes(w, "copy", <<>>)
        /\ UNCHANGED <<disk, backups, history, clock, trace>>
        /\ PoolFrame

\* GetEditHistory, lines 257-266: the records of the file are copied, the
\* mutex is released and the call returns.
PoolHistoryReturn ==
    \E w \in Workers :
        /\ workers[w].pc = "copy"
        /\ mutex' = mutex + 1
        /\ WorkerReturns(w)
        /\ UNCHANGED <<disk, backups, history, clock, trace>>
        /\ PoolFrame

NextPool ==
    \/ PoolStrReplaceRead \/ PoolBackupRead \/ PoolBackupWrite
    \/ PoolWrite \/ PoolRecord
    \/ PoolUndoCall \/ PoolUndoLock \/ PoolUndoRead \/ PoolUndoWrite \/ PoolUndoRemove
    \/ PoolHistoryCall \/ PoolHistoryRLock \/ PoolHistoryReturn

SpecPool == InitPool /\ [][NextPool]_vars

\* The call of worker w goes on: a file-system call of it returns, or it
\* gets the mutex it waits for.
Advances(w) ==
    /\ NextPool
    /\ workers[w].pc # "idle"
    /\ workers'[w] # workers[w]

\* Every file-system call returns, and a goroutine blocked in Lock or RLock
\* gets the mutex when it is free for it again and again (once a writer
\* waits in Lock, sync.RWMutex lets no new reader in before it, and a
\* writer that unlocks lets the waiting readers in).
\* The runs checked for progress: the workers make MaxFairEdits edits at
\* most, and call for the first file.
MaxFairEdits == 1

InFairRun ==
    /\ trace'.edits <= MaxFairEdits
    /\ \A w \in Workers : workers'[w].pc # "idle" => workers'[w].path = File1

NextPoolFair ==
    \/ PoolStrReplaceRead /\ InFairRun
    \/ PoolBackupRead /\ InFairRun
    \/ PoolBackupWrite /\ InFairRun
    \/ PoolWrite /\ InFairRun
    \/ PoolRecord /\ InFairRun
    \/ PoolUndoCall /\ InFairRun
    \/ PoolUndoLock /\ InFairRun
    \/ PoolUndoRead /\ InFairRun
    \/ PoolUndoWrite /\ InFairRun
    \/ PoolUndoRemove /\ InFairRun
    \/ PoolHistoryCall /\ InFairRun
    \/ PoolHistoryRLock /\ InFairRun
    \/ PoolHistoryReturn /\ InFairRun

SpecPoolFair ==
    /\ InitPool
    /\ [][NextPoolFair]_vars
    /\ \A w \in Workers : SF_vars(Advances(w) /\ NextPoolFair)

(***************************************************************************)
(* Properties of EditManager.                                              *)
(***************************************************************************)
\* The places where sub matches in s.
Matches(s, sub) == { i \in 1..Len(s) : MatchAt(s, sub, i) }

\* sub occurs in s at two places that do not overlap.
OccursTwice(s, sub) ==
    \E i, j \in Matches(s, sub) : j >= i + Len(sub)

Untouched == disk' = disk /\ backups' = backups /\ history' = history

\* C6: StrReplace on a file in which old occurs more than once (as in
\* "foo bar foo") fails with the ambiguous-match error and leaves the file,
\* the backups and the history as they were.
C6_AmbiguousRejected ==
    [][(/\ call'.op = "StrReplace"
        /\ disk[call'.path] # NoFile
        /\ OccursTwice(disk[call'.path], call'.old))
       => (ret' = "Ambiguous" /\ Untouched)]_vars

C6_Witness ==
    /\ call.op = "StrReplace"
    /\ ret = "Ambiguous"
    /\ OccursTwice(disk[call.path], call.old)
    /\ history # <<>>

\* C7: StrReplace on a file that does not contain old fails with the
\* not-found error and leaves the file, the backups and the history as they
\* were.
C7_NotFoundRejected ==
    [][(/\ call'.op = "StrReplace"
        /\ disk[call'.path] # NoFile
        /\ Matches(disk[call'.path], call'.old) = {})
       => (ret' = "NotFound" /\ Untouched)]_vars

C7_Witness ==
    /\ call.op = "StrReplace"
    /\ ret = "NotFound"
    /\ Matches(disk[call.path], call.old) = {}
    /\ history # <<>>

\* C8: when old occurs exactly once, so that the content is prefix ++ old ++
\* suffix, a successful StrReplace leaves prefix ++ new ++ suffix in the file
\* and appends one record for the path at the end of the history.
C8_ReplaceOnce ==
    [][(/\ call'.op = "StrReplace"
        /\ ret' = "nil"
        /\ Cardinality(Matches(disk[call'.path], call'.old)) = 1)
       => LET s == disk[call'.path]
              i == CHOOSE k \in Matches(s, call'.old) : TRUE
              prefix == SubSeq(s, 1, i - 1)
              suffix == SubSeq(s, i + Len(call'.old), Len(s))
          IN /\ disk'[call'.path] = prefix \o call'.new \o suffix
             /\ Len(history') = Len(history) + 1
             /\ SubSeq(history', 1, Len(history)) = history
             /\ history'[Len(history')].FilePath = call'.path]_vars

C8_Witness ==
    /\ call.op = "StrReplace"
    /\ ret = "nil"
    /\ call.before = <<"a", "b", "a">>
    /\ call.old = <<"b">>
    /\ disk[call.path] = <<"a", "a">>
    /\ Len(history) = 2

\* C9: an UndoEdit of the path right after a successful StrReplace succeeds,
\* leaves the file with the content it had before the replace, and removes
\* the record and the backup that the replace created.
C9_ReplaceUndoRoundTrip ==
    [][(/\ call.op = "StrReplace"
        /\ ret = "nil"
        /\ call'.op = "UndoEdit"
        /\ call'.path = call.path)
       => (/\ ret' = "nil"
           /\ disk'[call.path] = call.before
           /\ history' = SubSeq(history, 1, Len(history) - 1)
           /\ history[Len(history)].BackupPath \in DOMAIN backups
           /\ DOMAIN backups' = DOMAIN backups \ {history[Len(history)].BackupPath})]_vars

C9_Witness ==
    /\ call.op = "UndoEdit"
    /\ call.afterReplace
    /\ ret = "nil"
    /\ Len(history) = 1
    /\ Len(log) = 1
    /\ disk[call.path] # call.before

\* C10: after successful edits of a file (StrReplace, or Insert into an
\* existing file), each UndoEdit of the file succeeds and restores the
\* content that preceded the latest edit not yet undone, so n undos after n
\* edits end at the original content; with no edit left to undo, UndoEdit
\* fails with the no-history error.
C10_UndoStepsBack ==
    [][call'.op = "UndoEdit"
       => LET p == call'.path
              i == LastLogged(log, p, Len(log))
          IN IF i = 0
             THEN ret' = "NoHistory" /\ Untouched
             ELSE ret' = "nil" /\ disk'[p] = log[i].before]_vars

\* Three edits of one file, three undos, and a fourth that finds no history.
C10_Witness ==
    /\ call.op = "UndoEdit"
    /\ ret = "NoHistory"
    /\ streak = 4
    /\ clock = 3
    /\ history = <<>>
    /\ disk[File1] = <<"a", "b", "a">>
    /\ disk[File2] = NoFile

\* C11: between the calls of EditManager the history holds at most
\* HistoryCap records.
C11_HistoryBounded == Len(history) <= HistoryCap

\* More edits were made than the history holds, and it is full.
C11_Witness ==
    /\ clock > HistoryCap
    /\ Len(history) = HistoryCap
    /\ call.op \in {"StrReplace", "Insert"}
    /\ ret = "nil"

\* C12: a successful edit made with HistoryCap records evicts the oldest
\* record alone, of whichever file: its backup is deleted, the other records
\* keep their order and their backups, and no later UndoEdit restores the
\* evicted content: an UndoEdit of a path whose records were all evicted or
\* undone finds no history.
C12_EvictsOldest ==
    [][/\ (/\ call'.op \in {"StrReplace", "Insert"}
           /\ ret' = "nil"
           /\ Len(history) = HistoryCap)
          => (/\ Len(history') = HistoryCap
              /\ \A k \in 1..(HistoryCap - 1) : history'[k] = history[k + 1]
              /\ history'[HistoryCap].FilePath = call'.path
              /\ history[1].BackupPath \in DOMAIN backups
              /\ history[1].BackupPath \notin DOMAIN backups'
              /\ \A k \in 1..HistoryCap :
                     history'[k].BackupPath # history[1].BackupPath
              /\ \A k \in 2..HistoryCap :
                     /\ history[k].BackupPath \in DOMAIN backups'
                     /\ backups'[history[k].BackupPath] = backups[history[k].BackupPath])
       /\ (call'.op = "UndoEdit" /\ LastLogged(log, call'.path, Len(log)) = 0)
          => (ret' = "NoHistory" /\ Untouched)]_vars

\* File2 was edited once, that record was evicted by the edit after the
\* HistoryCap-th, and an UndoEdit of File2 finds nothing to restore.
C12_Witness ==
    /\ clock > HistoryCap
    /\ call.op = "UndoEdit"
    /\ call.path = File2
    /\ ret = "NoHistory"
    /\ disk[File2] = <<"b">>

\* The records of h that target p.
RecordsOf(h, p) == { k \in 1..Len(h) : h[k].FilePath = p }

\* The largest number of a non-empty set of numbers.
Newest(S) == CHOOSE k \in S : \A m \in S : m <= k

\* C13: a successful UndoEdit restores the backup of the newest record of the
\* path and removes that record alone: the other records keep their order,
\* the other backups and the other files are as they were.
C13_UndoFrame ==
    [][(call'.op = "UndoEdit" /\ ret' = "nil")
       => LET p == call'.path
              mine == RecordsOf(history, p)
          IN /\ mine # {}
             /\ LET i == Newest(mine)
                    gone == history[i].BackupPath
                IN /\ gone \in DOMAIN backups
                   /\ disk'[p] = backups[gone]
                   /\ \A q \in DOMAIN disk \ {p} : disk'[q] = disk[q]
                   /\ Len(history') = Len(history) - 1
                   /\ \A k \in 1..Len(history') :
                          history'[k] = IF k < i THEN history[k] ELSE history[k + 1]
                   /\ DOMAIN backups' = DOMAIN backups \ {gone}
                   /\ \A n \in DOMAIN backups' : backups'[n] = backups[n]]_vars

\* The second of three edits undone: an older edit of the file and a newer
\* edit of the other file are left.
C13_Witness ==
    /\ call.op = "UndoEdit"
    /\ call.path = File1
    /\ ret = "nil"
    /\ Len(history) = 2
    /\ history[1].FilePath = File1 /\ history[1].Timestamp = 1
    /\ history[2].FilePath = File2 /\ history[2].Timestamp = 3

\* C14: UndoEdit of a path that no record targets fails with the no-history
\* error and changes no file, no record and no backup.
C14_NoHistory ==
    [][(call'.op = "UndoEdit" /\ RecordsOf(history, call'.path) = {})
       => (ret' = "NoHistory" /\ Untouched)]_vars

\* Records of the other file exist, and the records of this one were undone.
C14_Witness ==
    /\ call.op = "UndoEdit"
    /\ ret = "NoHistory"
    /\ streak = 2
    /\ history # <<>>
    /\ RecordsOf(history, call.path) = {}

\* C15: every successful StrReplace or Insert, also an Insert that created
\* the file, appends a record for its path, which an UndoEdit of the path
\* finds.
C15_EveryEditRecorded ==
    [][(call'.op \in {"StrReplace", "Insert"} /\ ret' = "nil")
       => (/\ Len(history') = Len(history) + 1
           /\ history'[Len(history')].FilePath = call'.path)]_vars

\* C16: an Insert that creates the file leaves exactly the text in it.
C16_CreatesExactText ==
    (call.op = "Insert" /\ ret = "nil" /\ call.before = NoFile)
    => disk[call.path] = call.text

\* C17: Insert into a missing file at a line other than the start or the end
\* fails with the not-found error and creates no file, no directory, no
\* backup and no record.
C17_NoCreateElsewhere ==
    [][(/\ call'.op = "Insert"
        /\ disk[call'.path] = NoFile
        /\ call'.line \notin {0, -1})
       => (ret' = "FileNotFound" /\ Untouched)]_vars

C17_Witness ==
    /\ call.op = "Insert"
    /\ call.line = 1
    /\ ret = "FileNotFound"
    /\ disk[call.path] = NoFile
    /\ disk[Dir(call.path)] = NoFile

\* The places of the newlines of s, and the k-th of them.
Newlines(s) == { i \in 1..Len(s) : s[i] = NL }

NthNewline(s, k) ==
    CHOOSE i \in Newlines(s) : Cardinality({ j \in Newlines(s) : j < i }) = k - 1

\* s cut at its newlines: one piece more than it has newlines.
Pieces(s) ==
    LET n == Cardinality(Newlines(s))
        from(k) == IF k = 1 THEN 1 ELSE NthNewline(s, k - 1) + 1
        to(k) == IF k = n + 1 THEN Len(s) ELSE NthNewline(s, k) - 1
    IN [k \in 1..(n + 1) |-> SubSeq(s, from(k), to(k))]

\* The lines of the text s: its pieces, without the empty piece after a last
\* newline, and without the carriage return of a line ended the DOS way.
TextLines(s) ==
    LET ps == Pieces(s)
        n == IF ps[Len(ps)] = <<>> THEN Len(ps) - 1 ELSE Len(ps)
    IN [k \in 1..n |->
           IF ps[k] # <<>> /\ ps[k][Len(ps[k])] = CR
           THEN SubSeq(ps[k], 1, Len(ps[k]) - 1) ELSE ps[k]]

\* C18: a successful Insert into an existing file with the lines L at the
\* position p leaves the lines L[0..p), the text, L[p..n), joined by newlines
\* with none after the last, and appends one record; at the start the text
\* is the first line, at the end the last.
C18_InsertSplices ==
    [][(call'.op = "Insert" /\ ret' = "nil" /\ disk[call'.path] # NoFile)
       => LET path == call'.path
              L == TextLines(disk[path])
              n == Len(L)
              pos == IF call'.line = -1 THEN n ELSE call'.line
              after == Pieces(disk'[path])
          IN /\ 0 <= pos /\ pos <= n
             /\ Len(after) = n + 1
             /\ \A k \in 1..(n + 1) :
                    after[k] = IF k <= pos THEN L[k]
                               ELSE IF k = pos + 1 THEN call'.text
                               ELSE L[k - 1]
             /\ Len(history') = Len(history) + 1
             /\ SubSeq(history', 1, Len(history)) = history
             /\ history'[Len(history')].FilePath = path]_vars

\* The text put between the two lines of a file.
C18_Witness ==
    /\ call.op = "Insert"
    /\ call.line = 1
    /\ ret = "nil"
    /\ call.before = <<"a", NL, "a">>
    /\ disk[call.path] = <<"a", NL, "b", NL, "a">>

\* C19 as claimed: Insert into an existing file at any negative line number,
\* or at one beyond the number of lines, fails with the out-of-range error
\* and changes no file, no backup and no record.
C19_OutOfRange ==
    [][(/\ call'.op = "Insert"
        /\ disk[call'.path] # NoFile
        /\ (call'.line < 0 \/ call'.line > Len(TextLines(disk[call'.path]))))
       => (ret' = "OutOfRange" /\ Untouched)]_vars

\* C19 as amended: the line number -1 stands for the end and is accepted;
\* every line number below -1, or beyond the number of lines, is refused.
C19_OutOfRangeExceptEnd ==
    [][(/\ call'.op = "Insert"
        /\ disk[call'.path] # NoFile
        /\ (call'.line < -1 \/ call'.line > Len(TextLines(disk[call'.path]))))
       => (ret' = "OutOfRange" /\ Untouched)]_vars

C19_Witness ==
    /\ call.op = "Insert"
    /\ call.line \in {-2, 2}
    /\ ret = "OutOfRange"
    /\ call.before # NoFile
    /\ history # <<>>

\* The call under way is a StrReplace, or an Insert on a file that exists.
EditsExisting == run.pc \in {"read", "backup", "write", "record"}

\* C20: in StrReplace and in Insert on an existing file, a step that changes
\* the target file is taken only when the backup of the call is on disk and
\* holds the content the file had before the edit; and when createBackup
\* fails the call returns an error, the target file has the content it had
\* when the call began and the history is the one the call began with.
C20_BackupBeforeWrite ==
    [][ /\ (EditsExisting /\ disk'[run.path] # disk[run.path]) =>
              /\ run.pc = "write"
              /\ run.backupPath \in DOMAIN backups
              /\ backups[run.backupPath] = run.before
              /\ disk[run.path] = run.before
        /\ (run.pc = "backup" /\ run'.pc = "idle") =>
              /\ ret' \notin {"nil", "none"}
              /\ disk' = disk
              /\ disk'[run.path] = run.before
              /\ history' = run.hist
      ]_vars

\* After a recorded edit, an Insert on an existing file has failed at its
\* backup, of which an empty file is left.
C20_Witness ==
    /\ call.op = "Insert"
    /\ ret = "BackupError"
    /\ Len(history) = 1
    /\ call.before # NoFile
    /\ disk[call.path] = call.before
    /\ \E n \in DOMAIN backups : backups[n] = <<>>

\* The backups no record of the history h refers to.
Orphans(h, b) == { n \in DOMAIN b : \A k \in 1..Len(h) : h[k].BackupPath # n }

\* C25: when the eviction fails to delete the backup of the oldest record
\* (the backup is still there after the edit), the StrReplace or Insert
\* returns success all the same, the oldest record is dropped, the new one
\* appended and the history holds HistoryCap records; the backup is left
\* behind unchanged and no record refers to it.
C25_EvictionFailureLogged ==
    [][(/\ call'.op \in {"StrReplace", "Insert"}
        /\ Len(history) = HistoryCap
        /\ disk' # disk
        /\ history[1].BackupPath \in DOMAIN backups')
       => (/\ ret' = "nil"
           /\ Len(history') = HistoryCap
           /\ \A k \in 1..(HistoryCap - 1) : history'[k] = history[k + 1]
           /\ history'[HistoryCap].FilePath = call'.path
           /\ backups'[history[1].BackupPath] = backups[history[1].BackupPath]
           /\ history[1].BackupPath \in Orphans(history', backups'))]_vars

\* An edit beyond the capacity has returned success, the history is full
\* and the backup of the evicted record is left behind.
C25_Witness ==
    /\ clock > HistoryCap
    /\ call.op \in {"StrReplace", "Insert"}
    /\ ret = "nil"
    /\ Len(history) = HistoryCap
    /\ Orphans(history, backups) # {}

\* C35: between the calls of the editor, as long as no deletion of a backup
\* has failed (no warning was written), the files of the backup store are
\* the backups the records of the history refer to: no backup without a
\* record, also after a StrReplace or Insert that wrote its backup and then
\* failed to write the file.
C35_NoOrphanBackups ==
    (run.pc = "idle" /\ ~run.warned) =>
        DOMAIN backups = { history[k].BackupPath : k \in 1..Len(history) }

\* C30: StrReplace substitutes only when old matches the content at exactly
\* one index; when it matches at two or more indices, overlapping ones
\* included ("aaa" and "aa"), it fails with the ambiguous-match error and
\* leaves the file, the backups and the history as they were.
C30_OverlapRejected ==
    [][(/\ call'.op = "StrReplace"
        /\ disk[call'.path] # NoFile)
       => (/\ ret' = "nil" => Cardinality(Matches(disk[call'.path], call'.old)) = 1
           /\ Cardinality(Matches(disk[call'.path], call'.old)) >= 2
                  => (ret' = "Ambiguous" /\ Untouched))]_vars

(***************************************************************************)
(* Properties of EditManager under concurrent calls.                       *)
(***************************************************************************)
\* C21: no two live history records refer to the same backup, whatever the
\* directories of their files and the workers that made the edits.
C21_BackupNamesUnique ==
    \A i, j \in DOMAIN history :
        i # j => history[i].BackupPath # history[j].BackupPath

\* C22: the backup of every live history record is in the backup store and
\* holds the content copied when it was created.
C22_BackupsLive ==
    \A i \in DOMAIN history :
        /\ history[i].BackupPath \in DOMAIN backups
        /\ backups[history[i].BackupPath] = trace.ids[i].captured

\* The places of UndoEdit between its search of the history and its return.
InUndo(w) == workers[w].pc \in {"restoreRead", "restoreWrite", "remove"}

\* C23: every history record is consumed by at most one UndoEdit: no record
\* is restored from twice or removed twice, two workers are never both
\* between the search and the removal of UndoEdit, and the record an undo
\* removes is the one it restored from.
C23_UndoConsumesOnce ==
    /\ ~trace.twice
    /\ \A v, w \in Workers : (v # w /\ InUndo(v)) => ~InUndo(w)
    /\ \A w \in Workers : InUndo(w) =>
          /\ mutex = w
          /\ TracedAt(workers[w].lastEditIndex) = {workers[w].traced}
          /\ history[workers[w].lastEditIndex] = workers[w].entry
    /\ trace.removed \subseteq trace.restored

\* Two undos of the same path have each consumed a record of their own, the
\* records of two edits that ran at the same time.
C23_Witness ==
    /\ Cardinality({ r \in trace.removed : r.path = File1 }) = 2
    /\ trace.restored = trace.removed
    /\ \A r \in trace.removed : r.read = PoolDisk[File1]

\* The records appended so far, live or removed by an undo.
Recorded == { trace.ids[i] : i \in DOMAIN trace.ids } \cup trace.removed

\* No call is under way.
Quiet == \A w \in Workers : workers[w].pc = "idle"

\* The places at which the contents c and rd differ.
Differ(c, rd) ==
    { i \in 1..Len(c) \cup 1..Len(rd) :
        i > Len(c) \/ i > Len(rd) \/ c[i] # rd[i] }

\* C24: nothing serializes the calls on one path. When the only two recorded
\* edits are of one path and both read the same content, then once no call is
\* under way the file holds what one of the two wrote, the content they read
\* with one letter replaced (the other edit is lost although both returned
\* success and both were recorded), as long as
\* no undo ran, and after both records were undone the file holds what one of
\* the two backups captured, which need not be the content both edits read.
C24_LostUpdate ==
    \A r1, r2 \in Recorded :
        (/\ r1.id # r2.id
         /\ r1.path = r2.path
         /\ r1.read = r2.read
         /\ trace.next = 3
         /\ Quiet)
        => /\ trace.restored = {} =>
                 /\ Len(history) = 2
                 /\ disk[r1.path] \in {r1.wrote, r2.wrote}
                 /\ Cardinality(Differ(disk[r1.path], r1.read)) = 1
           /\ trace.removed = {r1, r2} =>
                 /\ history = <<>>
                 /\ disk[r1.path] \in {r1.captured, r2.captured}

\* Two edits of one file, which read the same content and wrote different
\* ones, were both recorded and then both undone, and the file does not
\* hold the content that both edits read.
C24_Witness ==
    /\ Quiet
    /\ history = <<>>
    /\ \E r1, r2 \in trace.removed :
          /\ r1.id # r2.id
          /\ r1.path = File1 /\ r2.path = File1
          /\ r1.read = PoolDisk[File1] /\ r2.read = PoolDisk[File1]
          /\ r1.wrote # r2.wrote
          /\ trace.removed = {r1, r2}
    /\ disk[File1] # PoolDisk[File1]

(***************************************************************************)
(* The directory trees, allowed roots and requests that are checked.       *)
(***************************************************************************)
nA == <<"a">>
nAB == <<"a", "b">>
nO == <<"o">>
nD == <<"d">>
nF == <<"f">>
nL == <<"l">>
nN == <<"n">>
nR == <<"r">>

\* The absolute path with the components segs.
P(segs) == <<Sep>> \o JoinSep(segs)

\* The entries every tree has: /a and its raw-prefix sibling /ab, the
\* directory /o, and /r, a symlink to the directory /a.
BaseTree ==
    (P(<<>>) :> DirNode) @@
    (P(<<nA>>) :> DirNode) @@ (P(<<nA, nD>>) :> DirNode) @@
    (P(<<nA, nD, nF>>) :> FileNode) @@ (P(<<nA, nF>>) :> FileNode) @@
    (P(<<nAB>>) :> DirNode) @@ (P(<<nAB, nD>>) :> DirNode) @@
    (P(<<nAB, nF>>) :> FileNode) @@
    (P(<<nO>>) :> DirNode) @@ (P(<<nO, nF>>) :> FileNode) @@
    (P(<<nR>>) :> LinkNode(P(<<nA>>)))

\* What the symlink /a/l may point to: a directory inside /a, a directory
\* outside, the sibling /ab, itself (a loop), a missing entry outside or
\* inside (a dangling link), and a relative target that leaves /a.
LinkTargets ==
    { P(<<nA, nD>>), P(<<nO>>), P(<<nAB>>), P(<<nA, nL>>),
      P(<<nO, nN>>), P(<<nA, nN>>), DotDot \o <<Sep>> \o nO }

Trees ==
    {BaseTree} \cup { BaseTree @@ (P(<<nA, nL>>) :> LinkNode(t)) : t \in LinkTargets }

\* The configured allowed directories (config.LoadConfig has made each
\* absolute and checked that it is a directory, following links).
RootConfigs ==
    { <<P(<<nA>>)>>, <<P(<<nR>>)>>, <<P(<<nA, nD>>)>>, <<P(<<nA>>), P(<<nAB, nD>>)>> }

\* What os.UserHomeDir and os.Getwd return: a directory, or an error.
Envs == { [home |-> P(<<nA>>), cwd |-> P(<<nA, nD>>)], [home |-> NoHome, cwd |-> NoCwd] }

\* The longest requested path, in components.
MaxDepth == 3

ReqNames == {nA, nAB, nO, nD, nF, nL, nN, nR, DotDot}

SeqsUpTo(S, n) == UNION { [1..k -> S] : k \in 0..n }

\* Absolute requests, relative ones, and ones with the home shorthand.
Requests ==
    { P(segs) : segs \in SeqsUpTo(ReqNames, MaxDepth) }
    \cup { JoinSep(segs) : segs \in SeqsUpTo(ReqNames, MaxDepth - 1) }
    \cup { <<"~">> \o (IF segs = <<>> THEN <<>> ELSE <<Sep>> \o JoinSep(segs)) :
             segs \in SeqsUpTo(ReqNames, MaxDepth - 1) }
    \cup { <<"~">> \o nA }

\* Before the call returns.
Pending == [ok |-> FALSE, path |-> <<>>, err |-> "pending"]

\* ValidatePath reads no mutable state, so every call is a first call: the
\* tree, the roots, the environment and the argument are drawn here.
InitPath ==
    /\ fs \in Trees
    /\ \E cfg \in RootConfigs : allowedDirectories = NewFileManager(cfg)
    /\ \E e \in Envs : home = e.home /\ cwd = e.cwd
    /\ vpReq \in Requests
    /\ vpRes = Pending
    /\ EditIdle
    /\ run = NoRun
    /\ PoolIdle
    /\ ToolIdle
    /\ McpIdle

\* The call FileManager.ValidatePath(vpReq) returns.
ValidatePathCall ==
    /\ vpRes = Pending
    /\ vpRes' = ValidatePath(allowedDirectories, fs, home, cwd, vpReq)
    /\ UNCHANGED <<allowedDirectories, fs, home, cwd, vpReq>>
    /\ UNCHANGED <<editVars, stepVars, poolVars, toolVars, mcpVars>>

NextPath == ValidatePathCall

SpecPath == InitPath /\ [][NextPath]_vars

(***************************************************************************)
(* The mcp.Server: handleRequest, called by the transport with each line   *)
(* it reads.                                                               *)
(***************************************************************************)
\* The methods of the messages: those handleRequest knows, those that have a
\* handler in this program, one that has none and a message without method.
InitMethods == { "notifications/initialized", "initialized" }
HandlerMethods == { "ping", "tools/list", "tools/call" }
Methods == {"initialize"} \cup InitMethods \cup HandlerMethods \cup {"resources/list", ""}

\* A line: JSON that unmarshals into a RequestMessage or does not, its method
\* and params that unmarshal into InitializeParams or do not.
Messages ==
    { [json |-> "ok", method |-> m, params |-> q] : m \in Methods, q \in {"ok", "bad"} }
    \cup { [json |-> "bad", method |-> "", params |-> "bad"] }

\* What a handler returns: a result or an error.
HandlerOutcomes == { "result", "error" }

\* What handleRequest returns: the marshalled ResponseMessage with a result
\* or with an error code, nothing (for a notification), or a Go error.
ResultResponse == [kind |-> "result", code |-> 0, err |-> "nil"]
ErrorResponse(code) == [kind |-> "error", code |-> code, err |-> "nil"]
NoReply == [kind |-> "none", code |-> 0, err |-> "nil"]
UnmarshalError == [kind |-> "none", code |-> 0, err |-> "unmarshal"]

\* What handleRequest leaves: the server, the response and whether the
\* handler of the method was called.
Answered(s, resp, dispatched) == [server |-> s, response |-> resp, dispatched |-> dispatched]

\* NewServer(info, config)
NewServer == [initialized |-> FALSE, handlers |-> {}]

\* Server.SetRequestHandler(method, handler)
SetRequestHandler(s, method) == [s EXCEPT !.handlers = @ \cup {method}]

\* A faulty handleInitialize that sets the flag before it reads the params.
handleInitializeEager(s, msg) ==
    IF msg.params # "ok"
    THEN Answered([s EXCEPT !.initialized = TRUE], ErrorResponse(-32602), FALSE)
    ELSE Answered([s EXCEPT !.initialized = TRUE], ResultResponse, FALSE)

\* Server.handleInitialize(request)
handleInitialize(s, msg) ==
    IF msg.params # "ok"
    THEN Answered(s, ErrorResponse(-32602), FALSE)
    ELSE Answered([s EXCEPT !.initialized = TRUE], ResultResponse, FALSE)

\* Server.handleRequest(data), where the handler, when it is called, has the
\* outcome given.
handleRequest(s, msg, outcome) ==
    IF msg.json # "ok" THEN Answered(s, UnmarshalError, FALSE)
    ELSE IF msg.method = "initialize" THEN handleInitialize(s, msg)
    ELSE IF msg.method = "notifications/initialized"
         THEN Answered([s EXCEPT !.initialized = TRUE], NoReply, FALSE)
    ELSE IF msg.method = "initialized"
         THEN Answered([s EXCEPT !.initialized = TRUE], NoReply, FALSE)
    ELSE IF ~s.initialized /\ msg.method # "ping"
         THEN Answered(s, ErrorResponse(-32002), FALSE)
    ELSE IF msg.method \notin s.handlers
         THEN Answered(s, ErrorResponse(-32601), FALSE)
    ELSE IF outcome = "error"
         THEN Answered(s, ErrorResponse(-32000), TRUE)
         ELSE Answered(s, ResultResponse, TRUE)

InitServer ==
    /\ server = NewServer
    /\ served = [tick |-> 0, ready |-> FALSE]
    /\ config = NoConfig
    /\ transport = NoTransport
    /\ conns = <<>>
    /\ disk = <<>>
    /\ backups = <<>>
    /\ history = <<>>
    /\ clock = 0
    /\ call = NoCall
    /\ ret = "none"
    /\ log = <<>>
    /\ streak = 0
    /\ run = NoRun
    /\ PoolIdle
    /\ ToolIdle
    /\ PathIdle

ServerFrame ==
    UNCHANGED <<pathVars, editVars, stepVars, poolVars, toolVars, config, transport, conns>>

\* The program registers a handler.
ServerRegisters ==
    \E method \in HandlerMethods :
        /\ method \notin server.handlers
        /\ server' = SetRequestHandler(server, method)
        /\ UNCHANGED served
        /\ ServerFrame

\* The transport reads a line and calls handleRequest with it. served keeps
\* the message and what was returned, and whether by now an initialize
\* request was answered with a result or an initialized notification came.
ServerHandles ==
    \E msg \in Messages, outcome \in HandlerOutcomes :
        LET out == handleRequest(server, msg, outcome) IN
        /\ server' = out.server
        /\ served' = [tick |-> 1 - served.tick,
                      message |-> msg,
                      response |-> out.response,
                      dispatched |-> out.dispatched,
                      ready |-> \/ served.ready
                                \/ /\ msg.json = "ok"
                                   /\ \/ msg.method \in InitMethods
                                      \/ /\ msg.method = "initialize"
                                         /\ out.response.kind = "result"]
        /\ ServerFrame

NextServer == ServerRegisters \/ ServerHandles

SpecServer == InitServer /\ [][NextServer]_vars

(***************************************************************************)
(* The transports: NetworkTransport with its accept loop and a goroutine   *)
(* for each connection, and StdioTransport with its reading goroutine.     *)
(* Start and Stop are called in any order; clients connect, send lines and *)
(* disconnect when they like.                                              *)
(***************************************************************************)
\* The connections a run sees and the lines a client has sent that are not
\* read yet.
MaxConns == 1
MaxLines == 1

\* Addresses are numbers of IPWidth bits (32 or 128 in net.IP).
IPWidth == 2
IPs == { 0, 1, 2 }

\* net.IP.String(): the canonical text of an address. An entry of AllowedIPs
\* is a text too, canonical or written another way (padded with zeros).
IPString(ip) == [ip |-> ip, form |-> "canonical"]
Padded(ip) == [ip |-> ip, form |-> "padded"]

\* net.IPNet.Contains(ip): the address has the first ones bits of the base.
SubnetContains(subnet, ip) ==
    ip \div 2^(IPWidth - subnet.ones) = subnet.base \div 2^(IPWidth - subnet.ones)

\* The NetworkConfig values of the runs, and the configuration of stdio.
NetworkConfigs ==
    { [kind |-> "network", AllowedIPs |-> a, AllowedSubnets |-> n] :
        a \in { {}, {IPString(1)}, {Padded(1)} },
        n \in { {}, {[base |-> 2, ones |-> IPWidth - 1]} } }
StdioConfig == [kind |-> "stdio", AllowedIPs |-> {}, AllowedSubnets |-> {}]

\* A faulty isIPAllowed that takes an empty AllowedIPs for no whitelist.
isIPAllowedIPsOnly(cfg, ip) ==
    IF cfg.AllowedIPs = {} THEN TRUE
    ELSE \/ \E allowedIP \in cfg.AllowedIPs : IPString(ip) = allowedIP
         \/ \E subnet \in cfg.AllowedSubnets : SubnetContains(subnet, ip)

\* NetworkTransport.isIPAllowed(addr), for the address of a TCP connection.
isIPAllowed(cfg, ip) ==
    IF cfg.AllowedIPs = {} /\ cfg.AllowedSubnets = {} THEN TRUE
    ELSE \/ \E allowedIP \in cfg.AllowedIPs : IPString(ip) = allowedIP
         \/ \E subnet \in cfg.AllowedSubnets : SubnetContains(subnet, ip)

\* NewNetworkTransport(config), NewStdioTransport(): not running, the stop
\* channel made. loop is the place of the goroutine Start runs, stop the
\* place of the Stop call, closes counts the close(stopChan) calls.
NewTransport ==
    [running |-> FALSE, stopChan |-> "open", listener |-> "none", waitGroup |-> 0,
     loop |-> "none", stop |-> "idle", closes |-> 0, panicked |-> FALSE,
     ret |-> "none"]

\* A connection nobody has made yet, and the standard input.
NoConn == [state |-> "none", ip |-> 0, sent |-> 0, open |-> FALSE, handled |-> FALSE]
Stdin == [state |-> "stdin", ip |-> 0, sent |-> 0, open |-> TRUE, handled |-> FALSE]

InitNet ==
    /\ config \in NetworkConfigs \cup {StdioConfig}
    /\ transport = NewTransport
    /\ conns = [c \in 1..MaxConns |->
                   IF config.kind = "stdio" /\ c = 1 THEN Stdin ELSE NoConn]
    /\ server = NoServer
    /\ served = NoMessage
    /\ disk = <<>>
    /\ backups = <<>>
    /\ history = <<>>
    /\ clock = 0
    /\ call = NoCall
    /\ ret = "none"
    /\ log = <<>>
    /\ streak = 0
    /\ run = NoRun
    /\ PoolIdle
    /\ ToolIdle
    /\ PathIdle

NetFrame ==
    UNCHANGED <<pathVars, editVars, stepVars, poolVars, toolVars, server, served, config>>

\* net.Listen succeeds or fails (the port is taken).
ListenOutcomes == { "ok", "failed" }

\* Start(handler), under the mutex of the transport.
TransportStart ==
    \E io \in ListenOutcomes :
        /\ transport.stop = "idle"
        /\ ~transport.panicked
        /\ transport' =
              IF transport.running
              THEN [transport EXCEPT !.ret = "AlreadyRunning"]
              ELSE IF config.kind = "network" /\ io = "failed"
              THEN [transport EXCEPT !.ret = "ListenError"]
              ELSE [transport EXCEPT
                       !.running = TRUE,
                       !.listener = IF config.kind = "network" THEN "open" ELSE @,
                       !.waitGroup = @ + 1,
                       !.loop = "select",
                       !.ret = "nil"]
        /\ UNCHANGED conns
        /\ NetFrame

\* Stop(), up to close(stopChan): nothing when the transport does not run;
\* close(stopChan) panics when the channel is closed already. The network
\* transport goes on to close its listener, the other waits at once.
TransportStop ==
    /\ transport.stop = "idle"
    /\ ~transport.panicked
    /\ transport' =
          IF ~transport.running
          THEN [transport EXCEPT !.ret = "nil"]
          ELSE IF transport.stopChan = "closed"
          THEN [transport EXCEPT !.panicked = TRUE, !.closes = @ + 1, !.ret = "panic"]
          ELSE [transport EXCEPT
                   !.stopChan = "closed",
                   !.closes = @ + 1,
                   !.stop = IF config.kind = "network" THEN "close" ELSE "wait",
                   !.ret = "none"]
    /\ UNCHANGED conns
    /\ NetFrame

\* Stop(), lines 105-107: the listener is closed; until then Accept still
\* returns the connections that come in.
TransportStopCloses ==
    /\ transport.stop = "close"
    /\ transport' = [transport EXCEPT !.listener = "closed", !.stop = "wait"]
    /\ UNCHANGED conns
    /\ NetFrame

\* Stop(), from waitGroup.Wait() on: every goroutine has returned.
TransportStopReturns ==
    /\ transport.stop = "wait"
    /\ transport.waitGroup = 0
    /\ transport' = [transport EXCEPT !.running = FALSE, !.stop = "idle", !.ret = "nil"]
    /\ UNCHANGED conns
    /\ NetFrame

\* The select at the head of the loop of acceptConnections and of
\* processRequests: the goroutine returns when stopChan is closed and goes
\* on to Accept or to ReadString when it is not.
LoopSelect ==
    /\ transport.loop = "select"
    /\ transport' =
          IF transport.stopChan = "closed"
          THEN [transport EXCEPT !.loop = "done", !.waitGroup = @ - 1]
          ELSE [transport EXCEPT !.loop = "blocked"]
    /\ UNCHANGED conns
    /\ NetFrame

\* acceptConnections, lines 122-141: Accept returns a connection, which is
\* closed when its address is not allowed and gets its goroutine when it is,
\* or an error once the listener is closed.
AcceptReturns ==
    /\ config.kind = "network"
    /\ transport.loop = "blocked"
    /\ \/ /\ transport.listener = "closed"
          /\ transport' =
                IF transport.stopChan = "closed"
                THEN [transport EXCEPT !.loop = "done", !.waitGroup = @ - 1]
                ELSE [transport EXCEPT !.loop = "select"]
          /\ UNCHANGED conns
       \/ /\ transport.listener = "open"
          /\ \E c \in DOMAIN conns :
                /\ conns[c].state = "pending"
                /\ IF isIPAllowed(config, conns[c].ip)
                   THEN /\ conns' = [conns EXCEPT ![c].state = "select"]
                        /\ transport' = [transport EXCEPT !.loop = "select",
                                                          !.waitGroup = @ + 1]
                   ELSE /\ conns' = [conns EXCEPT ![c].state = "rejected",
                                                  ![c].open = FALSE]
                        /\ transport' = [transport EXCEPT !.loop = "select"]
    /\ NetFrame

\* handleConnection, lines 181-184: the select at the head of its loop.
ConnSelect ==
    \E c \in DOMAIN conns :
        /\ conns[c].state = "select"
        /\ IF transport.stopChan = "closed"
           THEN /\ conns' = [conns EXCEPT ![c].state = "closed", ![c].open = FALSE]
                /\ transport' = [transport EXCEPT !.waitGroup = @ - 1]
           ELSE /\ conns' = [conns EXCEPT ![c].state = "read"]
                /\ UNCHANGED transport
        /\ NetFrame

\* handleConnection, lines 185-221: ReadString returns a line, for which the
\* handler is called, or the end of the connection; it does not return while
\* the client is connected and sends nothing.
ConnReads ==
    \E c \in DOMAIN conns :
        /\ conns[c].state = "read"
        /\ \/ /\ conns[c].sent > 0
              /\ conns' = [conns EXCEPT ![c].sent = @ - 1, ![c].handled = TRUE,
                                        ![c].state = "select"]
              /\ UNCHANGED transport
           \/ /\ conns[c].sent = 0
              /\ ~conns[c].open
              /\ conns' = [conns EXCEPT ![c].state = "closed"]
              /\ transport' = [transport EXCEPT !.waitGroup = @ - 1]
        /\ NetFrame

\* processRequests, lines 83-135: ReadString returns a line of the standard
\* input, for which the handler is called, or its end.
StdioReads ==
    \E c \in DOMAIN conns :
        /\ config.kind = "stdio"
        /\ transport.loop = "blocked"
        /\ \/ /\ conns[c].sent > 0
              /\ conns' = [conns EXCEPT ![c].sent = @ - 1, ![c].handled = TRUE]
              /\ transport' = [transport EXCEPT !.loop = "select"]
           \/ /\ conns[c].sent = 0
              /\ ~conns[c].open
              /\ UNCHANGED conns
              /\ transport' = [transport EXCEPT !.loop = "done", !.waitGroup = @ - 1]
        /\ NetFrame

\* A client connects from the address ip.
ClientConnects ==
    \E c \in DOMAIN conns, ip \in IPs :
        /\ config.kind = "network"
        /\ transport.listener = "open"
        /\ conns[c].state = "none"
        /\ conns' = [conns EXCEPT ![c] = [state |-> "pending", ip |-> ip, sent |-> 0,
                                         open |-> TRUE, handled |-> FALSE]]
        /\ UNCHANGED transport
        /\ NetFrame

\* A client, or whoever writes the standard input, sends a line.
ClientSends ==
    \E c \in DOMAIN conns :
        /\ conns[c].open
        /\ conns[c].sent < MaxLines
        /\ conns' = [conns EXCEPT ![c].sent = @ + 1]
        /\ UNCHANGED transport
        /\ NetFrame

\* A client disconnects; the standard input ends.
ClientCloses ==
    \E c \in DOMAIN conns :
        /\ conns[c].open
        /\ conns' = [conns EXCEPT ![c].open = FALSE]
        /\ UNCHANGED transport
        /\ NetFrame

NextNet ==
    \/ TransportStart \/ TransportStop \/ TransportStopCloses \/ TransportStopReturns
    \/ LoopSelect \/ AcceptReturns \/ ConnSelect \/ ConnReads \/ StdioReads
    \/ ClientConnects \/ ClientSends \/ ClientCloses

SpecNet == InitNet /\ [][NextNet]_vars

\* Every goroutine that can take a step takes it; nothing is assumed of the
\* clients and of the callers of Start and Stop.
SpecNetFair ==
    /\ SpecNet
    /\ WF_vars(TransportStopCloses)
    /\ WF_vars(TransportStopReturns)
    /\ WF_vars(LoopSelect)
    /\ WF_vars(AcceptReturns)
    /\ WF_vars(StdioReads)
    /\ \A c \in 1..MaxConns :
          WF_vars((ConnSelect \/ ConnReads) /\ conns'[c].state # conns[c].state)

(***************************************************************************)
(* Properties of ValidatePath.                                             *)
(***************************************************************************)
\* path is root or below it, compared component by component.
SegInside(path, root) ==
    LET ps == Split(path)
        rs == Split(root)
    IN Len(ps) >= Len(rs) /\ SubSeq(ps, 1, Len(rs)) = rs

\* path is inside one of the allowed roots as they are written.
LexInside(path) ==
    \E i \in 1..Len(allowedDirectories) : SegInside(path, allowedDirectories[i])

\* The place that opening or creating path reaches: every link followed, the
\* last one too; a missing last component lies in its resolved parent. No
\* place when the parent is missing or is no directory, or the links loop.
RECURSIVE Location(_, _, _)
Location(f, path, fuel) ==
    LET full == Stat(f, path) IN
    IF full.ok THEN [ok |-> TRUE, path |-> full.path]
    ELSE IF path = <<Sep>> \/ fuel = 0 THEN [ok |-> FALSE, path |-> <<>>]
    ELSE LET par == Stat(f, Dir(path)) IN
         IF ~par.ok \/ Lstat(f, par.path).kind # "dir"
         THEN [ok |-> FALSE, path |-> <<>>]
         ELSE LET leaf == Join(par.path, Base(path))
                  node == Lstat(f, leaf)
              IN IF node.kind = "none" THEN [ok |-> TRUE, path |-> leaf]
                 ELSE IF node.kind = "link"
                      THEN Location(f, IF IsAbs(node.target) THEN node.target
                                       ELSE Join(par.path, node.target), fuel - 1)
                      ELSE [ok |-> FALSE, path |-> <<>>]

LocationOf(path) == Location(fs, path, KernelMaxLinks)

\* The place loc is inside the directory that one of the allowed roots is.
LocInside(loc) ==
    \E i \in 1..Len(allowedDirectories) :
        LET r == Stat(fs, allowedDirectories[i]) IN r.ok /\ SegInside(loc, r.path)

\* The absolute path ValidatePath computes for the request of this state.
ReqAbsolute ==
    LET e == expandHomePath(home, vpReq) IN
    IF e.ok THEN Absolute(cwd, e.path) ELSE e

Returned == vpRes # Pending

AccessDenied == {"DeniedPath", "DeniedParent", "DeniedTarget"}

\* C1: a request whose place lies outside every allowed root (also a symlink
\* inside a root with its target outside) fails with an access-denied error
\* and returns no path.
C1_OutsideDenied ==
    (/\ Returned
     /\ ReqAbsolute.ok
     /\ LET loc == LocationOf(ReqAbsolute.path) IN loc.ok /\ ~LocInside(loc.path))
    => (~vpRes.ok /\ vpRes.err \in AccessDenied /\ vpRes.path = <<>>)

\* C2: containment is decided on whole components: when ValidatePath returns
\* a path, the absolute path, and the resolved path it checked (the real path,
\* or the real parent of a missing path), are each an allowed root or below one.
C2_SegmentContainment ==
    (Returned /\ vpRes.ok) =>
        LET abs == ReqAbsolute.path
            real == EvalSymlinks(fs, abs)
        IN /\ LexInside(abs)
           /\ IF real.ok THEN LexInside(real.path)
              ELSE LexInside(EvalSymlinks(fs, Dir(abs)).path)

\* C3: a request whose path is inside an allowed root, by its name and by the
\* place it resolves to, succeeds, and the path returned leads inside an
\* allowed root.
C3_InsideAccepted ==
    (/\ Returned
     /\ ReqAbsolute.ok
     /\ LexInside(ReqAbsolute.path)
     /\ LET loc == LocationOf(ReqAbsolute.path) IN loc.ok /\ LocInside(loc.path))
    => (/\ vpRes.ok
        /\ LET out == LocationOf(vpRes.path) IN out.ok /\ LocInside(out.path))

\* path is a proper ancestor of root.
ProperAncestor(path, root) == path # root /\ SegInside(root, path)

\* C4: a request that resolves exactly to an allowed root is authorized, and
\* one whose path is a proper ancestor of an allowed root and inside no
\* allowed root is not.
C4_RootAndAncestors ==
    (Returned /\ ReqAbsolute.ok) =>
        LET abs == ReqAbsolute.path
            real == EvalSymlinks(fs, abs)
        IN /\ (/\ LexInside(abs)
               /\ real.ok
               /\ \E i \in 1..Len(allowedDirectories) : real.path = allowedDirectories[i])
              => vpRes.ok
           /\ (/\ \E i \in 1..Len(allowedDirectories) :
                      ProperAncestor(abs, allowedDirectories[i])
               /\ ~LexInside(abs))
              => ~vpRes.ok

\* C5: a request inside an allowed root whose resolution runs into a symlink
\* loop is reported as a failure, never answered with a path.
C5_LoopFails ==
    (/\ Returned
     /\ ReqAbsolute.ok
     /\ LexInside(ReqAbsolute.path)
     /\ EvalSymlinks(fs, ReqAbsolute.path).err = "ELOOP")
    => ~vpRes.ok

\* path does not exist yet: its parent directory is missing, or is a
\* directory that has no entry of the path's name.
Missing(path) ==
    LET par == Stat(fs, Dir(path)) IN
    \/ ~par.ok
    \/ /\ Lstat(fs, par.path).kind = "dir"
       /\ Lstat(fs, Join(par.path, Base(path))).kind = "none"

\* C31: for a request that does not exist yet and is inside an allowed root
\* by its name, ValidatePath fails with the invalid-path error when the parent
\* directory does not exist, with an access-denied error when the resolved
\* parent is inside no allowed root, and returns the cleaned absolute path
\* otherwise.
C31_MissingPathByParent ==
    (/\ Returned
     /\ ReqAbsolute.ok
     /\ LexInside(ReqAbsolute.path)
     /\ Missing(ReqAbsolute.path))
    => LET par == Stat(fs, Dir(ReqAbsolute.path)) IN
       IF ~par.ok THEN ~vpRes.ok /\ vpRes.err = "NoParent"
       ELSE IF ~LexInside(par.path) THEN ~vpRes.ok /\ vpRes.err \in AccessDenied
       ELSE vpRes = Ok(ReqAbsolute.path)

\* C33: whenever ValidatePath succeeds, the place that opening or writing
\* the returned path reaches (links followed, also a last component that is
\* a link to a target that does not exist yet) is inside an allowed root.
C33_ReturnedPathStaysInside ==
    (Returned /\ vpRes.ok) =>
        LET out == LocationOf(vpRes.path) IN out.ok => LocInside(out.path)

(***************************************************************************)
(* The tools of the server: handleToolCall over FileManager and            *)
(* EditManager, for every tool that takes a path and for a name that is no *)
(* tool.                                                                   *)
(***************************************************************************)
\* The paths of the files and directories the tools are called with: the
\* allowed root /a with the files f and g and the directory n below it, and
\* the directory /o outside. There are no symbolic links.
ToolRoot == P(<<nA>>)
ToolDirs == { P(<<nA>>), P(<<nA, nN>>), P(<<nO>>) }
ToolFiles == { P(<<nA, nF>>), P(<<nA, <<"g">>>>), P(<<nA, nN, nF>>), P(<<nO, nF>>) }

\* Under the tools no file grows beyond MaxToolLen characters and at most
\* MaxToolEdits backups are created.
MaxToolLen == 2
MaxToolEdits == 1

\* What the disk holds at the start: /a, /o and /o/f exist, the others may.
ToolDisks ==
    { d \in [ToolDirs \cup ToolFiles -> { <<"a">>, <<"b">>, DirMark, NoFile }] :
        /\ d[P(<<nA>>)] = DirMark
        /\ d[P(<<nO>>)] = DirMark
        /\ d[P(<<nO, nF>>)] = <<"a">>
        /\ d[P(<<nA, nF>>)] \in { <<"a">>, NoFile }
        /\ d[P(<<nA, <<"g">>>>)] \in { <<"b">>, NoFile }
        /\ d[P(<<nA, nN>>)] \in { DirMark, NoFile }
        /\ d[P(<<nA, nN, nF>>)] \in { <<"a">>, NoFile }
        /\ d[P(<<nA, nN, nF>>)] # NoFile => d[P(<<nA, nN>>)] = DirMark }

\* The directory tree ValidatePath sees when the disk holds d.
TreeOf(d) ==
    [p \in {P(<<>>)} \cup { q \in DOMAIN d : d[q] # NoFile } |->
        IF p = P(<<>>) THEN DirNode
        ELSE IF d[p] = DirMark THEN DirNode ELSE FileNode]

\* The value of a call: the error, "nil" when there is none, and the result.
Value(e, v) == [err |-> e, value |-> v]

\* ParseReadFileArgs(args): args.json tells whether json.Unmarshal accepts
\* the arguments; a missing path is the empty string.
ParseReadFileArgs(args) ==
    IF args.json # "ok" THEN Value("InvalidArguments", <<>>)
    ELSE IF args.path = <<>> THEN Value("PathRequired", <<>>)
    ELSE Value("nil", args.path)

\* ParseReadMultipleFilesArgs(args)
ParseReadMultipleFilesArgs(args) ==
    IF args.json # "ok" THEN Value("InvalidArguments", <<>>)
    ELSE IF Len(args.paths) = 0 THEN Value("PathsRequired", <<>>)
    ELSE Value("nil", args.paths)

\* ParseGetFileInfoArgs(args)
ParseGetFileInfoArgs(args) ==
    IF args.json # "ok" THEN Value("InvalidArguments", <<>>)
    ELSE IF args.path = <<>> THEN Value("PathRequired", <<>>)
    ELSE Value("nil", args.path)

\* ParseWriteFileArgs(args): the content may be empty.
ParseWriteFileArgs(args) ==
    IF args.json # "ok" THEN Value("InvalidArguments", <<>>)
    ELSE IF args.path = <<>> THEN Value("PathRequired", <<>>)
    ELSE Value("nil", [path |-> args.path, content |-> args.content])

\* ParseCreateDirectoryArgs(args)
ParseCreateDirectoryArgs(args) ==
    IF args.json # "ok" THEN Value("InvalidArguments", <<>>)
    ELSE IF args.path = <<>> THEN Value("PathRequired", <<>>)
    ELSE Value("nil", args.path)

\* ParseListDirectoryArgs(args)
ParseListDirectoryArgs(args) ==
    IF args.json # "ok" THEN Value("InvalidArguments", <<>>)
    ELSE IF args.path = <<>> THEN Value("PathRequired", <<>>)
    ELSE Value("nil", args.path)

\* ParseSearchFilesArgs(args)
ParseSearchFilesArgs(args) ==
    IF args.json # "ok" THEN Value("InvalidArguments", <<>>)
    ELSE IF args.path = <<>> \/ args.pattern = <<>>
         THEN Value("PathAndPatternRequired", <<>>)
         ELSE Value("nil", [path |-> args.path, pattern |-> args.pattern])

\* ParseMoveFileArgs(args)
ParseMoveFileArgs(args) ==
    IF args.json # "ok" THEN Value("InvalidArguments", <<>>)
    ELSE IF args.source = <<>> \/ args.destination = <<>>
         THEN Value("SourceAndDestinationRequired", <<>>)
         ELSE Value("nil", [source |-> args.source, destination |-> args.destination])

\* ParseStrReplaceArgs(args)
ParseStrReplaceArgs(args) ==
    IF args.json # "ok" THEN Value("InvalidArguments", <<>>)
    ELSE IF args.path = <<>> THEN Value("PathRequired", <<>>)
    ELSE IF args.old_str = <<>> THEN Value("OldStrRequired", <<>>)
    ELSE Value("nil", [path |-> args.path, oldStr |-> args.old_str, newStr |-> args.new_str])

\* ParseInsertArgs(args): line_number is a JSON number, a string (written in
\* lower case here) or something else.
ParseInsertArgs(args) ==
    IF args.json # "ok" THEN Value("InvalidArguments", <<>>)
    ELSE IF args.path = <<>> THEN Value("PathRequired", <<>>)
    ELSE IF args.text = <<>> THEN Value("TextRequired", <<>>)
    ELSE IF args.line_number.type = "number"
         THEN Value("nil", [path |-> args.path, lineNumber |-> args.line_number.number,
                            text |-> args.text])
    ELSE IF args.line_number.type = "string"
         THEN IF args.line_number.keyword \in {"start", "begin", "beginning"}
              THEN Value("nil", [path |-> args.path, lineNumber |-> 0, text |-> args.text])
              ELSE IF args.line_number.keyword \in {"end", "append", "bottom"}
                   THEN Value("nil", [path |-> args.path, lineNumber |-> -1,
                                      text |-> args.text])
                   ELSE Value("InvalidKeyword", <<>>)
         ELSE Value("InvalidLineNumber", <<>>)

\* ParseUndoEditArgs(args)
ParseUndoEditArgs(args) ==
    IF args.json # "ok" THEN Value("InvalidArguments", <<>>)
    ELSE IF args.path = <<>> THEN Value("PathRequired", <<>>)
    ELSE Value("nil", args.path)

\* A faulty FileManager that makes the path absolute and checks nothing.
FileManagerUnchecked(dirs, f, h, c, paths) ==
    [path \in paths |->
        LET expanded == expandHomePath(h, path) IN
        IF ~expanded.ok THEN expanded ELSE Absolute(c, expanded.path)]

\* The FileManager as the tools use it: fm[path] is what ValidatePath(path)
\* returns while the directory tree is f.
FileManager(dirs, f, h, c, paths) ==
    [path \in paths |-> ValidatePath(dirs, f, h, c, path)]

\* FileManager.ReadFile(path)
ReadFile(fm, d, path) ==
    LET validPath == fm[path] IN
    IF ~validPath.ok THEN Value(validPath.err, <<>>)
    ELSE IF d[validPath.path] \in {NoFile, DirMark} THEN Value("ReadError", <<>>)
    ELSE Value("nil", d[validPath.path])

\* FileManager.ReadMultipleFiles(paths): one part for each path, the error
\* of a read that failed or the content; the call itself returns no error.
ReadMultipleFiles(fm, d, paths) ==
    Value("nil",
          [i \in 1..Len(paths) |->
              LET content == ReadFile(fm, d, paths[i]) IN
              IF content.err # "nil"
              THEN <<paths[i], "Error - ", content.err>>
              ELSE <<paths[i], content.value>>])

\* FileManager.WriteFile(path, content): os.WriteFile creates the file or
\* replaces its content; it fails for a directory and when the parent is
\* not a directory.
WriteFile(fm, d, path, content) ==
    LET validPath == fm[path] IN
    IF ~validPath.ok THEN [err |-> validPath.err, disk |-> d]
    ELSE IF Kind(d, validPath.path) = "dir" \/ Kind(d, Dir(validPath.path)) # "dir"
         THEN [err |-> "WriteError", disk |-> d]
    ELSE [err |-> "nil", disk |-> [d EXCEPT ![validPath.path] = content]]

\* FileManager.CreateDirectory(path): os.MkdirAll does nothing for a
\* directory that exists, fails when the path or a component above it is a
\* file, and else makes the directories that are missing.
CreateDirectory(fm, d, path) ==
    LET validPath == fm[path] IN
    IF ~validPath.ok THEN [err |-> validPath.err, disk |-> d]
    ELSE IF Kind(d, validPath.path) = "dir" THEN [err |-> "nil", disk |-> d]
    ELSE IF Kind(d, validPath.path) # "none" THEN [err |-> "MkdirError", disk |-> d]
    ELSE [err |-> "nil", disk |-> MkdirAll(d, validPath.path)]

\* The paths of the disk in the order filepath.WalkDir and os.ReadDir visit
\* them: every directory before its entries, the entries sorted by name.
WalkOrder ==
    << P(<<nA>>), P(<<nA, nF>>), P(<<nA, <<"g">>>>), P(<<nA, nN>>), P(<<nA, nN, nF>>),
       P(<<nO>>), P(<<nO, nF>>) >>

\* FileManager.ListDirectory(path): a line for each entry of the directory.
ListDirectory(fm, d, path) ==
    LET validPath == fm[path] IN
    IF ~validPath.ok THEN Value(validPath.err, <<>>)
    ELSE IF d[validPath.path] # DirMark THEN Value("ReadDirError", <<>>)
    ELSE LET entries == SelectSeq(WalkOrder,
                                  LAMBDA q : d[q] # NoFile /\ Dir(q) = validPath.path)
         IN Value("nil",
                  [i \in 1..Len(entries) |->
                      << IF d[entries[i]] = DirMark THEN "[DIR]" ELSE "[FILE]",
                         Base(entries[i]) >>])

\* The walk of SearchFiles reaches path from the root: every directory from
\* the root down to the parent of path is valid, else it was skipped.
RECURSIVE Walked(_, _, _)
Walked(fm, root, path) ==
    \/ path = root
    \/ /\ path # <<Sep>>
       /\ SegInside(path, root)
       /\ fm[Dir(path)].ok
       /\ Walked(fm, root, Dir(path))

\* SearchFiles(fm, rootPath, pattern): the valid entries below the root whose
\* name contains the pattern (in lower case here); a root that does not
\* exist gives no match and no error.
SearchFiles(fm, d, rootPath, pattern) ==
    LET validRootPath == fm[rootPath] IN
    IF ~validRootPath.ok THEN Value(validRootPath.err, <<>>)
    ELSE Value("nil",
               SelectSeq(WalkOrder,
                         LAMBDA q : /\ d[validRootPath.path] # NoFile
                                    /\ d[q] # NoFile
                                    /\ Walked(fm, validRootPath.path, q)
                                    /\ fm[q].ok
                                    /\ Contains(Base(q), pattern)))

\* GetFileStats(filePath): os.Stat and the fields taken from it; the three
\* times are the modification time.
GetFileStats(d, filePath) ==
    IF d[filePath] = NoFile THEN Value("StatError", <<>>)
    ELSE Value("nil",
               [Size |-> IF d[filePath] = DirMark THEN "DirSize" ELSE Len(d[filePath]),
                Created |-> "ModTime", Modified |-> "ModTime", Accessed |-> "ModTime",
                IsDirectory |-> d[filePath] = DirMark,
                IsFile |-> d[filePath] # DirMark,
                Permissions |-> "Perm"])

\* FileManager.GetFileInfo(path): the lines "key: value" of the result.
GetFileInfo(fm, d, path) ==
    LET validPath == fm[path] IN
    IF ~validPath.ok THEN Value(validPath.err, <<>>)
    ELSE LET info == GetFileStats(d, validPath.path) IN
         IF info.err # "nil" THEN Value("GetFileInfoError", <<>>)
         ELSE Value("nil",
                    << <<"size", info.value.Size>>,
                       <<"created", info.value.Created>>,
                       <<"modified", info.value.Modified>>,
                       <<"accessed", info.value.Accessed>>,
                       <<"isDirectory", info.value.IsDirectory>>,
                       <<"isFile", info.value.IsFile>>,
                       <<"permissions", info.value.Permissions>> >>)

\* path is below the directory dir.
Under(path, dir) ==
    Len(path) > Len(dir) + 1 /\ SubSeq(path, 1, Len(dir) + 1) = dir \o <<Sep>>

\* os.Rename(oldpath, newpath): it fails when oldpath is missing, when
\* newpath is a directory (os.Rename refuses it before the system call),
\* when the parent of newpath is not a directory, and for a directory
\* moved onto a file or below itself. Else a file at newpath is replaced,
\* a directory moves with what it holds (as far as the disk has the names),
\* and renaming a file to itself does nothing.
Rename(d, oldpath, newpath) ==
    IF Kind(d, oldpath) \in {"none", "notdir"} THEN [err |-> "RenameError", disk |-> d]
    ELSE IF Kind(d, newpath) = "dir" THEN [err |-> "RenameError", disk |-> d]
    ELSE IF Kind(d, Dir(newpath)) # "dir" THEN [err |-> "RenameError", disk |-> d]
    ELSE IF oldpath = newpath THEN [err |-> "nil", disk |-> d]
    ELSE IF Kind(d, oldpath) = "file"
         THEN [err |-> "nil",
               disk |-> [d EXCEPT ![newpath] = d[oldpath], ![oldpath] = NoFile]]
    ELSE IF Kind(d, newpath) = "file" \/ Under(newpath, oldpath)
         THEN [err |-> "RenameError", disk |-> d]
    ELSE [err |-> "nil",
          disk |-> [q \in DOMAIN d |->
                      IF q = newpath THEN DirMark
                      ELSE IF Under(q, newpath)
                           THEN LET from == oldpath \o SubSeq(q, Len(newpath) + 1, Len(q))
                                IN IF from \in DOMAIN d THEN d[from] ELSE NoFile
                      ELSE IF q = oldpath \/ Under(q, oldpath) THEN NoFile
                      ELSE d[q]]]

\* FileManager.MoveFile(source, destination)
MoveFile(fm, d, source, destination) ==
    LET validSource == fm[source] IN
    IF ~validSource.ok THEN [err |-> validSource.err, disk |-> d]
    ELSE LET validDest == fm[destination] IN
         IF ~validDest.ok THEN [err |-> validDest.err, disk |-> d]
         ELSE Rename(d, validSource.path, validDest.path)

\* FileManager.ListAllowedDirectories(): the heading and the directories.
ListAllowedDirectories(dirs) == <<"Allowed directories", dirs>>

\* A failure that is reported as a success.
createErrorResponseQuiet(message) ==
    [isError |-> FALSE, text |-> << <<"Error", message>> >>, err |-> "nil"]

\* createErrorResponse(message): the marshalled response and a nil error.
createErrorResponse(message) ==
    [isError |-> TRUE, text |-> << <<"Error", message>> >>, err |-> "nil"]

\* The response of a call that succeeded, marshalled at the end of
\* handleToolCall.
Marshal(text) == [isError |-> FALSE, text |-> text, err |-> "nil"]

\* What handleToolCall returns and the state it leaves.
Handled(resp, d, b, h, c) ==
    [response |-> resp, disk |-> d, backups |-> b, history |-> h, clock |-> c]

\* An EditManager call made by a tool: its error makes the error response.
Edited(out, done) ==
    Handled(IF out.err # "nil" THEN createErrorResponse(out.err)
            ELSE Marshal(<< <<"Successfully", done>> >>),
            out.disk, out.backups, out.history, out.clock)

\* handleToolCall(request, fileManager, editManager)
handleToolCall(req, fm, dirs, d, b, h, c) ==
    CASE req.name = "read_file" ->
           LET path == ParseReadFileArgs(req.arguments) IN
           IF path.err # "nil" THEN Handled(createErrorResponse(path.err), d, b, h, c)
           ELSE LET content == ReadFile(fm, d, path.value) IN
                IF content.err # "nil"
                THEN Handled(createErrorResponse(content.err), d, b, h, c)
                ELSE Handled(Marshal(<< <<"content", content.value>> >>), d, b, h, c)
      [] req.name = "read_multiple_files" ->
           LET paths == ParseReadMultipleFilesArgs(req.arguments) IN
           IF paths.err # "nil" THEN Handled(createErrorResponse(paths.err), d, b, h, c)
           ELSE LET content == ReadMultipleFiles(fm, d, paths.value) IN
                IF content.err # "nil"
                THEN Handled(createErrorResponse(content.err), d, b, h, c)
                ELSE Handled(Marshal(content.value), d, b, h, c)
      [] req.name = "write_file" ->
           LET parsed == ParseWriteFileArgs(req.arguments) IN
           IF parsed.err # "nil" THEN Handled(createErrorResponse(parsed.err), d, b, h, c)
           ELSE LET written == WriteFile(fm, d, parsed.value.path, parsed.value.content) IN
                IF written.err # "nil"
                THEN Handled(createErrorResponse(written.err), written.disk, b, h, c)
                ELSE Handled(Marshal(<< <<"Successfully", "wrote">> >>),
                             written.disk, b, h, c)
      [] req.name = "create_directory" ->
           LET path == ParseCreateDirectoryArgs(req.arguments) IN
           IF path.err # "nil" THEN Handled(createErrorResponse(path.err), d, b, h, c)
           ELSE LET created == CreateDirectory(fm, d, path.value) IN
                IF created.err # "nil"
                THEN Handled(createErrorResponse(created.err), created.disk, b, h, c)
                ELSE Handled(Marshal(<< <<"Successfully", "created">> >>),
                             created.disk, b, h, c)
      [] req.name = "list_directory" ->
           LET path == ParseListDirectoryArgs(req.arguments) IN
           IF path.err # "nil" THEN Handled(createErrorResponse(path.err), d, b, h, c)
           ELSE LET listing == ListDirectory(fm, d, path.value) IN
                IF listing.err # "nil"
                THEN Handled(createErrorResponse(listing.err), d, b, h, c)
                ELSE Handled(Marshal(<< <<"listing", listing.value>> >>), d, b, h, c)
      [] req.name = "search_files" ->
           LET parsed == ParseSearchFilesArgs(req.arguments) IN
           IF parsed.err # "nil" THEN Handled(createErrorResponse(parsed.err), d, b, h, c)
           ELSE LET results == SearchFiles(fm, d, parsed.value.path, parsed.value.pattern) IN
                IF results.err # "nil"
                THEN Handled(createErrorResponse(results.err), d, b, h, c)
                ELSE Handled(Marshal(IF Len(results.value) > 0
                                     THEN << <<"matches found", results.value>> >>
                                     ELSE << <<"No matches found", <<>>>> >>),
                             d, b, h, c)
      [] req.name = "get_file_info" ->
           LET path == ParseGetFileInfoArgs(req.arguments) IN
           IF path.err # "nil" THEN Handled(createErrorResponse(path.err), d, b, h, c)
           ELSE LET info == GetFileInfo(fm, d, path.value) IN
                IF info.err # "nil"
                THEN Handled(createErrorResponse(info.err), d, b, h, c)
                ELSE Handled(Marshal(info.value), d, b, h, c)
      [] req.name = "move_file" ->
           LET parsed == ParseMoveFileArgs(req.arguments) IN
           IF parsed.err # "nil" THEN Handled(createErrorResponse(parsed.err), d, b, h, c)
           ELSE LET moved == MoveFile(fm, d, parsed.value.source,
                                      parsed.value.destination) IN
                IF moved.err # "nil"
                THEN Handled(createErrorResponse(moved.err), moved.disk, b, h, c)
                ELSE Handled(Marshal(<< <<"Successfully", "moved">> >>),
                             moved.disk, b, h, c)
      [] req.name = "list_allowed_directories" ->
           Handled(Marshal(<< ListAllowedDirectories(dirs) >>), d, b, h, c)
      [] req.name = "str_replace" ->
           LET parsed == ParseStrReplaceArgs(req.arguments) IN
           IF parsed.err # "nil" THEN Handled(createErrorResponse(parsed.err), d, b, h, c)
           ELSE LET validPath == fm[parsed.value.path] IN
                IF ~validPath.ok
                THEN Handled(createErrorResponse(validPath.err), d, b, h, c)
                ELSE Edited(StrReplace(d, b, h, c, validPath.path,
                                       parsed.value.oldStr, parsed.value.newStr),
                            "replaced")
      [] req.name = "insert" ->
           LET parsed == ParseInsertArgs(req.arguments) IN
           IF parsed.err # "nil" THEN Handled(createErrorResponse(parsed.err), d, b, h, c)
           ELSE LET validPath == fm[parsed.value.path] IN
                IF ~validPath.ok
                THEN Handled(createErrorResponse(validPath.err), d, b, h, c)
                ELSE Edited(Insert(d, b, h, c, validPath.path,
                                   parsed.value.lineNumber, parsed.value.text),
                            "inserted")
      [] req.name = "undo_edit" ->
           LET path == ParseUndoEditArgs(req.arguments) IN
           IF path.err # "nil" THEN Handled(createErrorResponse(path.err), d, b, h, c)
           ELSE LET validPath == fm[path.value] IN
                IF ~validPath.ok
                THEN Handled(createErrorResponse(validPath.err), d, b, h, c)
                ELSE Edited(UndoEdit(d, b, h, c, validPath.path), "undid")
      [] OTHER -> Handled(createErrorResponse("UnknownTool"), d, b, h, c)

\* The arguments the tools are called with: well-formed ones, ones with a
\* field left out, and ones json.Unmarshal rejects.
BadArgs == [json |-> "bad"]
PathArgs(paths) == { [json |-> "ok", path |-> p] : p \in paths \cup {<<>>} } \cup {BadArgs}
LineNumberArgs ==
    { [type |-> "number", number |-> n, keyword |-> ""] : n \in {-1, 0, 3} }
    \cup { [type |-> "string", number |-> 0, keyword |-> k] : k \in {"start", "append", "top"} }
    \cup { [type |-> "null", number |-> 0, keyword |-> ""] }

ReadFileRequests ==
    { [name |-> "read_file", arguments |-> a] :
        a \in PathArgs({ P(<<nA, nF>>), P(<<nO, nF>>) }) }
ReadMultipleFilesRequests ==
    { [name |-> "read_multiple_files", arguments |-> a] :
        a \in { [json |-> "ok", paths |-> ps] :
                  ps \in { <<>>, <<P(<<nO, nF>>)>>,
                           <<P(<<nA, nF>>), P(<<nA, nN, nF>>)>> } } \cup {BadArgs} }
GetFileInfoRequests ==
    { [name |-> "get_file_info", arguments |-> a] :
        a \in PathArgs({ P(<<nA, nF>>), P(<<nA, nN, nF>>), P(<<nA, nN>>), P(<<nO, nF>>) }) }
MoveFileRequests ==
    { [name |-> "move_file", arguments |-> a] :
        a \in { [json |-> "ok", source |-> P(<<nA, nF>>), destination |-> dst] :
                  dst \in { P(<<nA, nF>>), P(<<nA, <<"g">>>>), P(<<nA, nN, nF>>),
                            P(<<nO, nF>>), <<>> } }
              \cup { [json |-> "ok", source |-> P(<<nO, nF>>),
                      destination |-> P(<<nA, <<"g">>>>)] }
              \cup { [json |-> "ok", source |-> P(<<nA, nN>>),
                      destination |-> P(<<nA, <<"g">>>>)] }
              \cup {BadArgs} }
StrReplaceRequests ==
    { [name |-> "str_replace", arguments |-> a] :
        a \in { [json |-> "ok", path |-> p, old_str |-> <<"a">>, new_str |-> <<"b">>] :
                  p \in { P(<<nA, nF>>), P(<<nA, nN, nF>>), P(<<nO, nF>>), <<>> } }
              \cup { [json |-> "ok", path |-> P(<<nA, nF>>), old_str |-> <<>>,
                      new_str |-> <<"b">>] }
              \cup {BadArgs} }
InsertRequests ==
    { [name |-> "insert", arguments |-> a] :
        a \in { [json |-> "ok", path |-> p, line_number |-> n, text |-> <<"b">>] :
                  p \in { P(<<nA, nF>>), P(<<nO, nF>>) },
                  n \in { [type |-> "number", number |-> k, keyword |-> ""] :
                            k \in {0, 3} } }
              \cup { [json |-> "ok", path |-> P(<<nA, nN, nF>>), line_number |-> n,
                      text |-> <<"b">>] : n \in LineNumberArgs }
              \cup { [json |-> "ok", path |-> p, line_number |-> n, text |-> t] :
                       p \in { P(<<nA, nF>>), <<>> },
                       n \in { [type |-> "number", number |-> 0, keyword |-> ""] },
                       t \in { <<"b">>, <<>> } }
              \cup {BadArgs} }
WriteFileRequests ==
    { [name |-> "write_file", arguments |-> a] :
        a \in { [json |-> "ok", path |-> p, content |-> <<"b">>] :
                  p \in { P(<<nA, <<"g">>>>), P(<<nA, nN>>),
                          P(<<nO, nF>>), <<"~", Sep, "g">>, <<>> } }
              \cup {BadArgs} }
CreateDirectoryRequests ==
    { [name |-> "create_directory", arguments |-> a] :
        a \in PathArgs({ P(<<nA, nN>>), P(<<nA, nF>>), P(<<nO>>) }) }
ListDirectoryRequests ==
    { [name |-> "list_directory", arguments |-> a] :
        a \in PathArgs({ P(<<nA>>), P(<<nA, nF>>), P(<<nO>>) }) }
SearchFilesRequests ==
    { [name |-> "search_files", arguments |-> a] :
        a \in { [json |-> "ok", path |-> p, pattern |-> <<"f">>] :
                  p \in { P(<<nA>>), P(<<nO>>), <<>> } }
              \cup { [json |-> "ok", path |-> P(<<nA>>), pattern |-> <<>>] }
              \cup {BadArgs} }
ListAllowedDirectoriesRequests ==
    { [name |-> "list_allowed_directories", arguments |-> a] :
        a \in { [json |-> "ok"], BadArgs } }
UndoEditRequests ==
    { [name |-> "undo_edit", arguments |-> a] :
        a \in PathArgs({ P(<<nA, nF>>), P(<<nO, nF>>) }) }
UnknownRequests == { [name |-> "delete_file", arguments |-> [json |-> "ok", path |-> P(<<nA, nF>>)]] }

\* main: the FileManager for the allowed directory /a and a new EditManager.
InitTool ==
    /\ disk \in ToolDisks
    /\ backups = <<>>
    /\ history = <<>>
    /\ clock = 0
    /\ call = NoCall
    /\ ret = "none"
    /\ log = <<>>
    /\ streak = 0
    /\ run = NoRun
    /\ PoolIdle
    /\ ToolIdle
    /\ McpIdle
    /\ allowedDirectories = NewFileManager(<<ToolRoot>>)
    /\ fs = TreeOf(disk)
    /\ home = ToolRoot
    /\ cwd = ToolRoot
    /\ vpReq = <<>>
    /\ vpRes = [ok |-> FALSE, path |-> <<>>, err |-> "nil"]

\* The paths the arguments name; search_files validates every entry it visits.
ArgPaths(args) ==
    IF args.json # "ok" THEN {}
    ELSE (IF "path" \in DOMAIN args THEN {args.path} ELSE {})
         \cup (IF "source" \in DOMAIN args THEN {args.source, args.destination} ELSE {})
         \cup (IF "paths" \in DOMAIN args
               THEN { args.paths[i] : i \in 1..Len(args.paths) } ELSE {})
         \cup (IF "pattern" \in DOMAIN args
               THEN { WalkOrder[i] : i \in 1..Len(WalkOrder) } ELSE {})

\* The tools/call handler passes req to handleToolCall and returns what it
\* returns. The calls are bounded: files stay short, the clock stays low and
\* no directory is made where the disks of this section have a file.
Handles(req) ==
    /\ request = NoRequest
    /\ \E fm \in { FileManager(allowedDirectories, fs, home, cwd, ArgPaths(req.arguments)) } :
       \E out \in { handleToolCall(req, fm, allowedDirectories,
                                    disk, backups, history, clock) } :
       /\ out.clock <= MaxToolEdits
       /\ \A p \in ToolFiles : out.disk[p] = NoFile \/ Len(out.disk[p]) <= MaxToolLen
       /\ \A p \in ToolFiles : out.disk[p] # DirMark
       /\ request' = req
       /\ response' = out.response
       /\ disk' = out.disk
       /\ backups' = out.backups
       /\ history' = out.history
       /\ clock' = out.clock
       /\ fs' = TreeOf(out.disk)

ToolFrame ==
    UNCHANGED <<allowedDirectories, home, cwd, vpReq, vpRes, call, ret, log, streak,
                stepVars, poolVars, mcpVars>>

ReadFileTool ==
    \E req \in ReadFileRequests :
        /\ Handles(req)
        /\ ToolFrame

ReadMultipleFilesTool ==
    \E req \in ReadMultipleFilesRequests :
        /\ Handles(req)
        /\ ToolFrame

GetFileInfoTool ==
    \E req \in GetFileInfoRequests :
        /\ Handles(req)
        /\ ToolFrame

MoveFileTool ==
    \E req \in MoveFileRequests :
        /\ Handles(req)
        /\ ToolFrame

StrReplaceTool ==
    \E req \in StrReplaceRequests :
        /\ Handles(req)
        /\ ToolFrame

InsertTool ==
    \E req \in InsertRequests :
        /\ Handles(req)
        /\ ToolFrame

UndoEditTool ==
    \E req \in UndoEditRequests :
        /\ Handles(req)
        /\ ToolFrame

WriteFileTool ==
    \E req \in WriteFileRequests :
        /\ Handles(req)
        /\ ToolFrame

CreateDirectoryTool ==
    \E req \in CreateDirectoryRequests :
        /\ Handles(req)
        /\ ToolFrame

ListDirectoryTool ==
    \E req \in ListDirectoryRequests :
        /\ Handles(req)
        /\ ToolFrame

SearchFilesTool ==
    \E req \in SearchFilesRequests :
        /\ Handles(req)
        /\ ToolFrame

ListAllowedDirectoriesTool ==
    \E req \in ListAllowedDirectoriesRequests :
        /\ Handles(req)
        /\ ToolFrame

UnknownTool ==
    \E req \in UnknownRequests :
        /\ Handles(req)
        /\ ToolFrame

\* The response is written to the client and the server reads on.
Responds ==
    /\ request # NoRequest
    /\ request' = NoRequest
    /\ response' = NoResponse
    /\ UNCHANGED <<pathVars, editVars, stepVars, poolVars, mcpVars>>

NextTool ==
    \/ ReadFileTool \/ ReadMultipleFilesTool \/ GetFileInfoTool \/ MoveFileTool
    \/ StrReplaceTool \/ InsertTool \/ UndoEditTool \/ UnknownTool
    \/ WriteFileTool \/ CreateDirectoryTool \/ ListDirectoryTool \/ SearchFilesTool
    \/ ListAllowedDirectoriesTool
    \/ Responds

SpecTool == InitTool /\ [][NextTool]_vars

(***************************************************************************)
(* Properties of the tools.                                                *)
(***************************************************************************)
\* The step is the call of the tool name with arguments that json.Unmarshal
\* accepts.
Calls(name) ==
    /\ request = NoRequest
    /\ request'.name = name
    /\ request'.arguments.json = "ok"

\* The values the lines of text give for key.
FieldValues(text, key) ==
    { text[i][2] : i \in { j \in 1..Len(text) : text[j][1] = key } }

\* C26: get_file_info for a path inside the allowed root whose file does not
\* exist is answered as a success with exists = false, not as an error; for
\* an existing file the result reports exists = true with its metadata.
C26_MissingFileReported ==
    [][(/\ Calls("get_file_info")
        /\ request'.arguments.path # <<>>
        /\ SegInside(request'.arguments.path, ToolRoot))
       => (/\ ~response'.isError
           /\ FieldValues(response'.text, "exists")
                 = {disk[request'.arguments.path] # NoFile}
           /\ disk[request'.arguments.path] # NoFile
                 => FieldValues(response'.text, "size") # {})]_vars

\* C27: an insert call at the start or the end on a missing file inside the
\* allowed root whose parent directory is missing too succeeds and creates
\* the directory and the file.
C27_InsertCreatesParents ==
    [][(/\ Calls("insert")
        /\ ParseInsertArgs(request'.arguments).err = "nil"
        /\ ParseInsertArgs(request'.arguments).value.lineNumber \in {0, -1}
        /\ SegInside(request'.arguments.path, ToolRoot)
        /\ disk[request'.arguments.path] = NoFile
        /\ disk[Dir(request'.arguments.path)] = NoFile)
       => (/\ ~response'.isError
           /\ disk'[Dir(request'.arguments.path)] = DirMark
           /\ disk'[request'.arguments.path] = request'.arguments.text \o <<NL>>)]_vars

\* C28: move_file fails and leaves source and destination as they were
\* whenever the destination exists.
C28_MoveKeepsDestination ==
    [][(/\ Calls("move_file")
        /\ ParseMoveFileArgs(request'.arguments).err = "nil"
        /\ disk[request'.arguments.destination] # NoFile)
       => (/\ response'.isError
           /\ disk' = disk)]_vars

\* The path the call is for, and what ValidatePath returns for it.
Asked == request'.arguments.path
Valid(path) == ValidatePath(allowedDirectories, fs, home, cwd, path)

\* The call that is made cannot succeed: its tool is unknown, its arguments
\* are malformed or incomplete, a path is refused, or the operation has
\* nothing to work on or finds a file where it needs a directory (or a
\* directory where it needs a file). read_multiple_files reports the reads
\* that failed in its result and fails only on its arguments;
\* list_allowed_directories takes no arguments and never fails.
Fails ==
    \/ request'.name \notin { "read_file", "read_multiple_files", "get_file_info",
                              "move_file", "str_replace", "insert", "undo_edit",
                              "write_file", "create_directory", "list_directory",
                              "search_files", "list_allowed_directories" }
    \/ /\ request'.name # "list_allowed_directories"
       /\ request'.arguments.json # "ok"
    \/ /\ request'.name = "read_multiple_files"
       /\ request'.arguments.paths = <<>>
    \/ /\ request'.name \in { "read_file", "get_file_info", "str_replace", "insert",
                              "undo_edit", "write_file", "create_directory",
                              "list_directory", "search_files" }
       /\ \/ Asked = <<>>
          \/ ~Valid(Asked).ok
    \/ /\ request'.name = "write_file"
       /\ \/ disk[Valid(Asked).path] = DirMark
          \/ disk[Dir(Valid(Asked).path)] # DirMark
    \/ /\ request'.name = "create_directory"
       /\ \/ disk[Asked] \notin {NoFile, DirMark}
          \/ disk[Dir(Asked)] \notin {NoFile, DirMark}
    \/ /\ request'.name = "list_directory"
       /\ disk[Asked] # DirMark
    \/ /\ request'.name = "search_files"
       /\ request'.arguments.pattern = <<>>
    \/ /\ request'.name = "read_file"
       /\ disk[Asked] \in {NoFile, DirMark}
    \/ /\ request'.name = "get_file_info"
       /\ disk[Asked] = NoFile
    \/ /\ request'.name = "move_file"
       /\ \/ request'.arguments.source = <<>>
          \/ request'.arguments.destination = <<>>
          \/ ~Valid(request'.arguments.source).ok
          \/ ~Valid(request'.arguments.destination).ok
          \/ disk[request'.arguments.source] = NoFile
          \/ disk[request'.arguments.destination] = DirMark
          \/ disk[Dir(request'.arguments.destination)] # DirMark
          \/ /\ disk[request'.arguments.source] = DirMark
             /\ disk[request'.arguments.destination] # NoFile
    \/ /\ request'.name = "str_replace"
       /\ \/ request'.arguments.old_str = <<>>
          \/ disk[Asked] \in {NoFile, DirMark}
          \/ Cardinality(Matches(disk[Asked], request'.arguments.old_str)) # 1
    \/ /\ request'.name = "insert"
       /\ \/ request'.arguments.text = <<>>
          \/ ParseInsertArgs(request'.arguments).err # "nil"
          \/ disk[Asked] = DirMark
          \/ disk[Dir(Asked)] \notin {NoFile, DirMark}
          \/ /\ disk[Asked] = NoFile
             /\ ParseInsertArgs(request'.arguments).value.lineNumber \notin {0, -1}
          \/ /\ disk[Asked] # NoFile
             /\ ParseInsertArgs(request'.arguments).value.lineNumber
                   > Len(ScanLines(disk[Asked]))
    \/ /\ request'.name = "undo_edit"
       /\ GetEditHistory(history, Asked) = <<>>

\* C29: every call of a tool that fails (arguments, refused or invalid path,
\* nothing found, ambiguous match, line out of range, no history, unknown
\* tool) returns a result with isError set and an error text, and a nil Go
\* error, and no other call does; a failed call is not tried again: it
\* leaves files, backups, history and clock as they were, and a call that
\* succeeds creates one backup at most.
C29_FailuresAreResults ==
    [][request = NoRequest /\ request' # NoRequest
       => (/\ response'.err = "nil"
           /\ Fails <=> response'.isError
           /\ response'.isError <=> response'.text[1][1] = "Error"
           /\ response'.isError => UNCHANGED <<disk, backups, history, clock>>
           /\ clock' <= clock + 1)]_vars

C29_Witness ==
    /\ request.name = "undo_edit"
    /\ request.arguments.json = "ok"
    /\ response.isError
    /\ response.err = "nil"
    /\ response.text[1][1] = "Error"
    /\ history # <<>>


\* The tools that touch the filesystem, and the paths a call names.
PathTools ==
    { "read_file", "read_multiple_files", "write_file", "create_directory",
      "list_directory", "move_file", "search_files", "get_file_info",
      "str_replace", "insert", "undo_edit" }
Named ==
    IF request'.name = "move_file"
    THEN { request'.arguments.source, request'.arguments.destination }
    ELSE IF request'.name = "read_multiple_files"
         THEN { request'.arguments.paths[i] : i \in 1..Len(request'.arguments.paths) }
         ELSE { request'.arguments.path }

\* C32: a call of a tool that touches the filesystem with a path that
\* ValidatePath refuses changes no file, backup or history record
\* (read_multiple_files, which goes on to its other paths, changes nothing at
\* all); a file or directory that a call changes is at the path ValidatePath
\* returned for a path of the call (or is the parent directory insert
\* makes), a history record that is added names that returned path, and
\* every match search_files returns is a path ValidatePath accepts.
C32_ValidatedFirst ==
    [][(/\ request = NoRequest
        /\ request' # NoRequest
        /\ request'.name \in PathTools
        /\ request'.arguments.json = "ok")
       => (/\ (\E p \in Named : p = <<>> \/ ~Valid(p).ok)
                 => UNCHANGED <<disk, backups, history, clock>>
           /\ \A q \in DOMAIN disk :
                 disk'[q] # disk[q]
                    => \E p \in Named :
                          /\ p # <<>>
                          /\ Valid(p).ok
                          /\ q \in { Valid(p).path, Dir(Valid(p).path) }
           /\ \A i \in 1..Len(history') :
                 (\A k \in 1..Len(history) : history[k] # history'[i])
                    => /\ Valid(Asked).ok
                       /\ history'[i].FilePath = Valid(Asked).path
           /\ (request'.name = "search_files" /\ ~response'.isError)
                 => \A i \in 1..Len(response'.text[1][2]) :
                       /\ Valid(response'.text[1][2][i]).ok
                       /\ SegInside(response'.text[1][2][i], ToolRoot))]_vars

C32_Witness ==
    /\ request.name = "write_file"
    /\ request.arguments.json = "ok"
    /\ request.arguments.path = P(<<nO, nF>>)
    /\ response.isError
    /\ response.text[1][2] \in AccessDenied
    /\ disk[P(<<nO, nF>>)] # NoFile
    /\ history # <<>>


\* The worker holds the mutex of the history, for writing or for reading.
Holds(w) == mutex = w \/ workers[w].pc = "copy"

\* C34: under every interleaving of the calls of StrReplace, UndoEdit and
\* GetEditHistory in which the file-system calls return, a call that has
\* begun returns, and a worker whose call has returned does not hold the
\* mutex of the history (so that every worker that holds it gives it up).
C34_CallsReturn ==
    /\ \A w \in Workers : (workers[w].pc # "idle") ~> (workers[w].pc = "idle")
    /\ [](\A w \in Workers : workers[w].pc = "idle" => ~Holds(w))
    /\ [](mutex < 0 => -mutex = Cardinality({ w \in Workers : workers[w].pc = "copy" }))

C34_Witness ==
    /\ workers[1].pc = "lock"
    /\ workers[2].pc = "restoreWrite"
    /\ mutex = 2


\* C36: while no initialize request was answered with a result and no
\* initialized notification came, a request for a method other than
\* initialize, notifications/initialized, initialized and ping is not passed
\* to a handler and is answered with the error code -32002; an initialize
\* request with invalid parameters leaves the server uninitialized; the
\* initialized flag, once set, stays set (and it is set exactly when an
\* initialize request was answered or a notification came).
C36_InitializedGate ==
    /\ [][served' # served =>
            LET msg == served'.message IN
            /\ (/\ ~served.ready
                /\ msg.json = "ok"
                /\ msg.method \notin {"initialize", "ping"} \cup InitMethods)
                  => /\ ~served'.dispatched
                     /\ served'.response = ErrorResponse(-32002)
            /\ (/\ ~served.ready
                /\ msg.json = "ok"
                /\ msg.method = "initialize"
                /\ msg.params # "ok")
                  => /\ ~server'.initialized
                     /\ ~served'.ready
                     /\ served'.response.kind = "error"]_vars
    /\ [][server.initialized => server'.initialized]_vars
    /\ [](served.ready <=> server.initialized)

C36_Witness ==
    /\ served.tick = 1
    /\ served.message.method = "tools/call"
    /\ "tools/call" \in server.handlers
    /\ served.response = ErrorResponse(-32002)
    /\ ~served.dispatched
    /\ ~server.initialized


\* The address is one of the allowed addresses, however it is written, or
\* lies in an allowed subnet.
Listed(cfg, ip) ==
    \/ \E allowedIP \in cfg.AllowedIPs : allowedIP.ip = ip
    \/ \E subnet \in cfg.AllowedSubnets : SubnetContains(subnet, ip)
Whitelist(cfg) == cfg.AllowedIPs # {} \/ cfg.AllowedSubnets # {}

\* C37: with a whitelist (an allowed address or subnet), a connection from
\* an address that is no allowed address and in no allowed subnet is closed
\* when it is accepted, gets no goroutine, and the handler is never called
\* for it; with no whitelist every connection that is accepted gets its
\* goroutine.
C37_WhitelistEnforced ==
    /\ [](\A c \in DOMAIN conns :
            (/\ config.kind = "network"
             /\ Whitelist(config)
             /\ conns[c].state # "none"
             /\ ~Listed(config, conns[c].ip))
               => /\ ~conns[c].handled
                  /\ conns[c].state \in {"pending", "rejected"})
    /\ [][\A c \in DOMAIN conns :
            (conns[c].state = "pending" /\ conns'[c].state # "pending")
               => IF Whitelist(config) /\ ~Listed(config, conns[c].ip)
                  THEN /\ conns'[c].state = "rejected"
                       /\ ~conns'[c].open
                       /\ transport'.waitGroup = transport.waitGroup
                  ELSE ~Whitelist(config)
                          => /\ conns'[c].state = "select"
                             /\ transport'.waitGroup = transport.waitGroup + 1]_vars

C37_Witness ==
    /\ config.kind = "network"
    /\ config.AllowedIPs = {}
    /\ config.AllowedSubnets # {}
    /\ conns[1].state = "rejected"
    /\ conns[1].ip = 0
    /\ conns[1].sent > 0
    /\ ~conns[1].handled
    /\ transport.running

\* C38: no Start or Stop call panics in any sequence of calls; Start on a
\* running transport returns an error and Stop on a transport that does not
\* run returns nil, both changing nothing; the stop channel is closed once
\* at most.
C38_StartStopSafe ==
    /\ [](~transport.panicked /\ transport.closes <= 1)
    /\ [][(TransportStart /\ transport.running)
             => transport' = [transport EXCEPT !.ret = "AlreadyRunning"]]_vars
    /\ [][(TransportStop /\ ~transport.running)
             => transport' = [transport EXCEPT !.ret = "nil"]]_vars

\* C39: a Stop call on a running network transport returns: the transport
\* does not run then, and the accept loop and the goroutine of every
\* connection have returned, also when clients stay connected and send
\* nothing.
C39_StopReturns ==
    (config.kind = "network" /\ transport.stop # "idle")
       ~> (/\ transport.stop = "idle"
           /\ ~transport.running
           /\ transport.waitGroup = 0)

====
